---- MODULE Spec2Model ----
(***************************************************************************)
(* Model of the Fortnox documentation server: the OpenAPI document, the    *)
(* endpoint index built from it (OpenAPIParser.getAllEndpoints) and the    *)
(* tool handlers of FortnoxMCPServer that query the index.                 *)
(*                                                                         *)
(* JavaScript strings are sequences of one-character strings, so that      *)
(* toUpperCase, toLowerCase, includes and replace are computed character   *)
(* by character.  An optional value (a property that may be undefined) is  *)
(* a record [def, val].                                                    *)
(***************************************************************************)
EXTENDS Integers, Sequences, FiniteSets, TLC

VARIABLES
  source,     \* the file openapi.json
  parser,     \* the module variable `parser` of openapi-parser.ts: null or the instance
  spec,       \* the field `spec` of the parser instance
  reads,      \* the number of times the file has been read
  phase,      \* the process: "created", "serving" or "exited"
  endpoints,  \* the field `endpoints` of the server
  call,       \* the request being handled
  result,     \* its response
  seen,       \* history, kept by the process specification: the kinds of the
              \* error responses handed out so far
  frame       \* the activation of a schema function that is executed step by
              \* step: its program point, the schema at hand, the nodes that
              \* JSON.stringify has still to visit, and the number of lookups
              \* in components.schemas made so far

vars == <<source, parser, spec, reads, phase, endpoints, call, result, seen, frame>>

(* what no tool handler assigns *)
process == <<source, parser, spec, reads, phase, endpoints, seen, frame>>

----------------------------------------------------------------------------
(* Optional values *)

Undefined == [def |-> FALSE, val |-> <<>>]

Some(v) == [def |-> TRUE, val |-> v]

(* JavaScript truthiness of an optional string: undefined and "" are falsy *)
TruthyStr(o) == o.def /\ o.val # <<>>

(* JavaScript truthiness of an optional number: undefined and 0 are falsy *)
TruthyNum(o) == o.def /\ o.val # 0

----------------------------------------------------------------------------
(* String.prototype operations, on the ASCII range *)

LowerLetters == <<"a","b","c","d","e","f","g","h","i","j","k","l","m",
                  "n","o","p","q","r","s","t","u","v","w","x","y","z">>

UpperLetters == <<"A","B","C","D","E","F","G","H","I","J","K","L","M",
                  "N","O","P","Q","R","S","T","U","V","W","X","Y","Z">>

UpperChar(c) ==
  IF \E i \in 1..Len(LowerLetters) : LowerLetters[i] = c
  THEN UpperLetters[CHOOSE i \in 1..Len(LowerLetters) : LowerLetters[i] = c]
  ELSE c

LowerChar(c) ==
  IF \E i \in 1..Len(UpperLetters) : UpperLetters[i] = c
  THEN LowerLetters[CHOOSE i \in 1..Len(UpperLetters) : UpperLetters[i] = c]
  ELSE c

toUpperCase(s) == IF s = <<>> THEN <<>> ELSE [i \in 1..Len(s) |-> UpperChar(s[i])]

toLowerCase(s) == IF s = <<>> THEN <<>> ELSE [i \in 1..Len(s) |-> LowerChar(s[i])]

(* s.indexOf(pat): the 0-based position of the first occurrence, or -1 *)
indexOf(s, pat) ==
  LET hits == {i \in 0..(Len(s) - Len(pat)) : SubSeq(s, i + 1, i + Len(pat)) = pat}
  IN IF hits = {} THEN -1 ELSE CHOOSE i \in hits : \A j \in hits : i <= j

(* s.includes(pat) *)
includes(s, pat) == indexOf(s, pat) >= 0

(* s.replace(pat, rep) with a string pattern: the FIRST occurrence only,
   wherever it is *)
replace(s, pat, rep) ==
  LET i == indexOf(s, pat)
  IN IF i < 0 THEN s
     ELSE SubSeq(s, 1, i) \o rep \o SubSeq(s, i + Len(pat) + 1, Len(s))

(* Array.prototype.slice(start, end): negative indices count from the end,
   both are clamped to [0, length] *)
SliceIndex(n, k) == IF k < 0 THEN (IF n + k < 0 THEN 0 ELSE n + k)
                    ELSE (IF k > n THEN n ELSE k)

slice(a, start, end) == SubSeq(a, SliceIndex(Len(a), start) + 1, SliceIndex(Len(a), end))

(* Array.prototype.filter, for a sequence and the set of kept positions *)
RECURSIVE FilterSeq(_, _)
FilterSeq(a, keep) ==
  IF a = <<>> THEN <<>>
  ELSE LET rest == FilterSeq(SubSeq(a, 1, Len(a) - 1), keep)
       IN IF Len(a) \in keep THEN Append(rest, a[Len(a)]) ELSE rest

(* Array.prototype.includes on a sequence of strings *)
arrayIncludes(a, x) == \E i \in 1..Len(a) : a[i] = x

----------------------------------------------------------------------------
(* The strings of the bounded documents and calls *)

sGET == <<"G","E","T">>
sPOST == <<"P","O","S","T">>
sPUT == <<"P","U","T">>
sDELETE == <<"D","E","L","E","T","E">>
sPATCH == <<"P","A","T","C","H">>

(* the literal 'fortnox_' of the tag clean-up *)
FortnoxPrefix == <<"f","o","r","t","n","o","x","_">>

(* the literal '{' that marks a path placeholder *)
Brace == <<"{">>

pathC == <<"/","c">>
pathCId == <<"/","c","/","{","i","}">>
pathCUp == <<"/","C">>

tagFAb == FortnoxPrefix \o <<"A","b">>
tagFab == FortnoxPrefix \o <<"a","b">>
tagMid == <<"Z">> \o FortnoxPrefix \o <<"b">>
tagInv == <<"I","n","v","o","i","c","e">>

sOpA == <<"o","p","A">>
sOpB == <<"o","p","B">>
sOpD == <<"o","p","D">>
sOpE == <<"o","p","E">>
sList == <<"L","i","s","t">>
sPay == <<"P","a","y">>
sCu == <<"C","u">>
sNo == <<"N","o">>

----------------------------------------------------------------------------
(* The document (OpenAPISpec) *)

(* a bug: the methods tried in alphabetical order *)
methods_alphabetical == << <<"d","e","l","e","t","e">>, <<"g","e","t">>,
                           <<"p","a","t","c","h">>, <<"p","o","s","t">>, <<"p","u","t">> >>

(* const methods = ['get', 'post', 'put', 'delete', 'patch'] *)
methods == << <<"g","e","t">>, <<"p","o","s","t">>, <<"p","u","t">>,
              <<"d","e","l","e","t","e">>, <<"p","a","t","c","h">> >>

MethodKeys == {methods[i] : i \in 1..Len(methods)}

(* Schema: the fields the handlers read *)
Schema(type, ref, description, properties, items) ==
  [type |-> type, ref |-> ref, description |-> description, properties |-> properties,
   items |-> items]

SchemaObj == Schema("object", Undefined, Undefined, Undefined, Undefined)
SchemaRef == Schema("", Some(sCu), Undefined, Undefined, Undefined)

(* Parameter *)
ParamPath == [name |-> <<"i">>, in |-> "path", required |-> Some(TRUE)]
ParamQuery == [name |-> <<"q">>, in |-> "query", required |-> Undefined]
ParamHeader == [name |-> <<"h">>, in |-> "header", required |-> Some(FALSE)]
ParamCookie == [name |-> <<"k">>, in |-> "cookie", required |-> Some(TRUE)]

(* Response and RequestBody: content is the ordered list of media types *)
JsonContent(schema) == <<[key |-> "application/json", val |-> [schema |-> Some(schema)]]>>

Operation(id, summary, description, tags, parameters, requestBody, responses) ==
  [operationId |-> id, summary |-> summary, description |-> description,
   tags |-> tags, parameters |-> parameters, requestBody |-> requestBody,
   responses |-> responses]

Resp200 == <<[key |-> "200", val |-> [content |-> Some(JsonContent(SchemaObj))]]>>
Resp201 == <<[key |-> "201", val |-> [content |-> Some(JsonContent(SchemaRef))]]>>
Resp204 == <<[key |-> "204", val |-> [content |-> Undefined]]>>

(* a content object whose only media type has no schema, and one whose
   second media type only has a schema *)
PlainContent == <<[key |-> "text/plain", val |-> [schema |-> Undefined]]>>
PlainJsonContent == PlainContent \o JsonContent(SchemaRef)

(* responses under several status codes *)
RespBoth == Resp200 \o Resp201
RespEmpty200 == <<[key |-> "200", val |-> [content |-> Undefined]]>> \o Resp201
RespPlain200 == <<[key |-> "200", val |-> [content |-> Some(PlainContent)]]>> \o Resp201
RespPlainJson200 == <<[key |-> "200", val |-> [content |-> Some(PlainJsonContent)]]>>
RespOthers == <<[key |-> "202", val |-> [content |-> Some(JsonContent(SchemaObj))]],
                [key |-> "default", val |-> [content |-> Some(JsonContent(SchemaRef))]]>>
Resp201Later == Resp201 \o RespOthers

(* Two path items that define all five methods; the items of the bounded
   documents are their restrictions to a set of methods. *)
FullItemA == [m \in MethodKeys |->
  CASE m = methods[1] -> Some(Operation(sOpA, Some(sList), Undefined, Some(<<tagFAb>>),
                              Some(<<ParamPath, ParamQuery>>), Undefined, Resp200))
    [] m = methods[2] -> Some(Operation(sOpB, Undefined, Some(sPay), Undefined,
                              Undefined, Some([content |-> JsonContent(SchemaRef)]), Resp201))
    [] m = methods[3] -> Some(Operation(sOpA, Undefined, Undefined, Some(<<tagFAb, tagInv>>),
                              Some(<<ParamHeader>>), Some([content |-> JsonContent(SchemaObj)]),
                              Resp201Later))
    [] m = methods[4] -> Some(Operation(sOpD, Undefined, Undefined, Some(<<>>),
                              Undefined, Undefined, Resp204))
    [] OTHER -> Some(Operation(sOpE, Some(sPay), Undefined, Some(<<tagInv, tagInv>>),
                              Some(<<ParamCookie, ParamQuery, ParamHeader, ParamPath>>),
                              Undefined, Resp200))]

FullItemB == [m \in MethodKeys |->
  CASE m = methods[1] -> Some(Operation(sOpD, Undefined, Undefined, Some(<<tagMid, tagFAb>>),
                              Some(<<ParamPath>>), Undefined, RespPlainJson200))
    [] m = methods[2] -> Some(Operation(sOpE, Undefined, Undefined, Some(<<tagFAb>>),
                              Undefined, Undefined, RespEmpty200))
    [] m = methods[3] -> Some(Operation(sOpD, Some(sList), Undefined, Some(<<tagMid>>),
                              Undefined, Undefined, RespBoth))
    [] m = methods[4] -> Some(Operation(sOpD, Undefined, Undefined, Some(<<tagFAb>>),
                              Undefined, Undefined, RespOthers))
    [] OTHER -> Some(Operation(sOpE, Undefined, Undefined, Some(<<tagFAb>>),
                              Undefined, Undefined, RespPlain200))]

MethodSets == { {methods[1], methods[2]},
                {methods[3], methods[4], methods[5]},
                MethodKeys }

Restrict(item, ms) == [m \in MethodKeys |-> IF m \in ms THEN item[m] ELSE Undefined]

ItemPool == {Restrict(item, ms) : item \in {FullItemA, FullItemB}, ms \in MethodSets}

PathPool == {pathC, pathCId, pathCUp}

(* The largest number of paths of a bounded document *)
MaxPaths == 2

(* components.schemas of the bounded documents *)
Schemas == <<[key |-> sCu, val |-> SchemaObj]>>

PathSeqs(n) == {ps \in [1..n -> PathPool] : \A i, j \in 1..n : ps[i] = ps[j] => i = j}

(* info and servers of the bounded documents *)
sTitle == <<"F","o","r","t","n","o","x">>
sUrl == <<"h","t","t","p","s",":","/","/","a">>

Info == [title |-> Some(sTitle), version |-> Undefined, description |-> Some(sPay)]

Servers == <<[url |-> Some(sUrl)]>>

(* OpenAPISpec: every top-level field is a property that the file may lack *)
Document(info, servers, paths, components) ==
  [info |-> info, servers |-> servers, paths |-> paths, components |-> components]

(* Documents: paths is the ordered list of (key, path item) entries of the
   parsed object, with distinct keys *)
Documents ==
  UNION { { Document(Some(Info), Some(Servers),
                     Some([i \in 1..n |-> [key |-> ps[i], val |-> its[i]]]),
                     Some([schemas |-> Some(Schemas)]))
            : ps \in PathSeqs(n), its \in [1..n -> ItemPool] }
          : n \in 0..MaxPaths }

----------------------------------------------------------------------------
(* The documents of the tag statistics: operations that differ in their tag
   lists only.  The tags carry the vendor prefix or not, name keywords of
   one or of two categories or of none, and two of them are array indices. *)

tCustomers == FortnoxPrefix \o <<"C","u","s","t","o","m","e","r","s">>
tInvoices == FortnoxPrefix \o <<"I","n","v","o","i","c","e","s">>
tModes == FortnoxPrefix \o <<"M","o","d","e","s","O","f","P","a","y","m","e","n","t","s">>
tOffers == FortnoxPrefix \o <<"O","f","f","e","r","s">>
tUnits == FortnoxPrefix \o <<"U","n","i","t","s">>
tPriceOffer == <<"P","r","i","c","e","O","f","f","e","r">>
tCustomersInvoice == FortnoxPrefix \o <<"C","u","s","t","o","m","e","r","s","I","n","v","o","i","c","e">>
tLowerInvoices == FortnoxPrefix \o <<"i","n","v","o","i","c","e","s">>
tBeta == <<"B","e","t","a">>
tSeven == <<"7">>
tTen == <<"1","0">>
tZeta == FortnoxPrefix \o <<"Z","e","t","a">>

TagListPool ==
  { Undefined,
    Some(<<tInvoices, tCustomers, tModes, tOffers, tUnits, tagFAb>>),
    Some(<<tBeta, tSeven, tLowerInvoices, tPriceOffer, tCustomersInvoice, tZeta>>),
    Some(<<tBeta, tTen, tInvoices, tInvoices>>),
    Some(<<tZeta, tCustomers>>) }

(* The largest number of operations of such a document *)
MaxOps == 3

TagPaths == <<pathC, pathCId, pathCUp>>

TaggedOperation(tags) == Operation(sOpA, Undefined, Undefined, tags, Undefined, Undefined, Resp200)

(* the k-th operation of such a document is the ((k-1) % 5 + 1)-th method of
   the ((k-1) \div 5 + 1)-th path *)
TagItem(ls, p) ==
  [m \in MethodKeys |->
     LET k == 5 * (p - 1) + (CHOOSE i \in 1..Len(methods) : methods[i] = m)
     IN IF k <= Len(ls) THEN Some(TaggedOperation(ls[k])) ELSE Undefined]

TagDocument(ls) ==
  Document(Some(Info), Some(Servers),
           Some([p \in 1..((Len(ls) + 4) \div 5) |->
                   [key |-> TagPaths[p], val |-> TagItem(ls, p)]]),
           Some([schemas |-> Some(Schemas)]))

TagDocuments ==
  UNION { {TagDocument(ls) : ls \in [1..n -> TagListPool]} : n \in 0..MaxOps }

----------------------------------------------------------------------------
(* OpenAPIParser *)

(* getBaseUrl(): throws when servers is absent or empty *)
getBaseUrlThrows(doc) == ~doc.servers.def \/ Len(doc.servers.val) = 0

getBaseUrl(doc) == doc.servers.val[1].url

(* obj[key] on the ordered entries of a parsed object *)
Get(entries, k) ==
  LET hits == {i \in 1..Len(entries) : entries[i].key = k}
  IN IF hits = {} THEN Undefined
     ELSE Some(entries[CHOOSE i \in hits : \A j \in hits : i <= j].val)

(* the schema of the first media type of a content object, if any *)
FirstSchema(content) ==
  IF Len(content) > 0 THEN content[1].val.schema ELSE Undefined

(* a bug: the 201 response taken when the 200 response has no schema *)
parseOperation_fallsThrough(path, method, operation) ==
  LET r200 == Get(operation.responses, "200")
      has200 == r200.def /\ r200.val.content.def /\ FirstSchema(r200.val.content.val).def
      successResponse == IF has200 THEN r200 ELSE Get(operation.responses, "201")
  IN [path |-> path,
      method |-> toUpperCase(method),
      operationId |-> operation.operationId,
      summary |-> operation.summary,
      description |-> operation.description,
      parameters |-> IF operation.parameters.def THEN operation.parameters.val ELSE <<>>,
      tags |-> operation.tags,
      requestBodySchema |->
        IF operation.requestBody.def
        THEN FirstSchema(operation.requestBody.val.content)
        ELSE Undefined,
      responseSchema |->
        IF successResponse.def /\ successResponse.val.content.def
        THEN FirstSchema(successResponse.val.content.val)
        ELSE Undefined]

parseOperation(path, method, operation) ==
  LET r200 == Get(operation.responses, "200")
      successResponse == IF r200.def THEN r200 ELSE Get(operation.responses, "201")
  IN [path |-> path,
      method |-> toUpperCase(method),
      operationId |-> operation.operationId,
      summary |-> operation.summary,
      description |-> operation.description,
      parameters |-> IF operation.parameters.def THEN operation.parameters.val ELSE <<>>,
      tags |-> operation.tags,
      requestBodySchema |->
        IF operation.requestBody.def
        THEN FirstSchema(operation.requestBody.val.content)
        ELSE Undefined,
      responseSchema |->
        IF successResponse.def /\ successResponse.val.content.def
        THEN FirstSchema(successResponse.val.content.val)
        ELSE Undefined]

(* the inner loop of getAllEndpoints: the methods from the k-th on *)
RECURSIVE EndpointsOfItem(_, _, _)
EndpointsOfItem(path, pathItem, k) ==
  IF k > Len(methods) THEN <<>>
  ELSE LET operation == pathItem[methods[k]]
       IN (IF operation.def
           THEN <<parseOperation(path, methods[k], operation.val)>>
           ELSE <<>>) \o EndpointsOfItem(path, pathItem, k + 1)

(* the outer loop of getAllEndpoints: the paths from the i-th on *)
RECURSIVE EndpointsFrom(_, _)
EndpointsFrom(paths, i) ==
  IF i > Len(paths) THEN <<>>
  ELSE EndpointsOfItem(paths[i].key, paths[i].val, 1) \o EndpointsFrom(paths, i + 1)

(* Object.entries(this.spec.paths) throws a TypeError on undefined *)
getAllEndpointsThrows(doc) == ~doc.paths.def

getAllEndpoints(doc) == EndpointsFrom(doc.paths.val, 1)

(* the literal '#/components/schemas/' *)
RefPrefix == <<"#","/","c","o","m","p","o","n","e","n","t","s","/",
               "s","c","h","e","m","a","s","/">>

startsWith(s, pre) == Len(s) >= Len(pre) /\ SubSeq(s, 1, Len(pre)) = pre

(* the names that every object parsed from JSON inherits from
   Object.prototype as functions *)
ObjectPrototypeKeys ==
  { <<"c","o","n","s","t","r","u","c","t","o","r">>,
    <<"t","o","S","t","r","i","n","g">>,
    <<"v","a","l","u","e","O","f">>,
    <<"h","a","s","O","w","n","P","r","o","p","e","r","t","y">> }

(* such a function: a value that is no data of the document *)
NativeFunction == Schema("function", Undefined, Undefined, Undefined, Undefined)

(* obj[key] with a key that the caller chooses, on an object parsed from
   JSON: the own property, else the property inherited from Object.prototype *)
GetProperty(entries, k) ==
  LET own == Get(entries, k)
  IN IF own.def THEN own
     ELSE IF k \in ObjectPrototypeKeys THEN Some(NativeFunction)
     ELSE Undefined

(* this.spec.components?.schemas?.[schemaName] *)
resolveSchemaRef(doc, ref) ==
  IF ~startsWith(ref, RefPrefix) THEN Undefined
  ELSE IF ~doc.components.def THEN Undefined
  ELSE IF ~doc.components.val.schemas.def THEN Undefined
  ELSE GetProperty(doc.components.val.schemas.val, replace(ref, RefPrefix, <<>>))

----------------------------------------------------------------------------
(* FortnoxMCPServer: results *)

(* the fields of an endpoint that a listing renders; the texts that stand
   in for an absent field ('No summary', 'None') are formatting *)
Shown(e) == [method |-> e.method, path |-> e.path, operationId |-> e.operationId,
             summary |-> e.summary, tags |-> e.tags]

ShownAll(es) == IF es = <<>> THEN <<>> ELSE [i \in 1..Len(es) |-> Shown(es[i])]

(* a bug: the method filter compared without normalizing the argument *)
listAllEndpoints_caseSensitive(eps, args) ==
  LET filteredEndpoints ==
        FilterSeq(eps, {i \in 1..Len(eps) :
          /\ (TruthyStr(args.method) => eps[i].method = args.method.val)
          /\ (TruthyStr(args.tag) =>
                eps[i].tags.def /\ arrayIncludes(eps[i].tags.val, args.tag.val))})
      limit == IF TruthyNum(args.limit) THEN args.limit.val ELSE Len(filteredEndpoints)
      limitedEndpoints == slice(filteredEndpoints, 0, limit)
  IN [isError |-> FALSE,
      kind |-> "list",
      total |-> Len(filteredEndpoints),
      showing |-> Len(limitedEndpoints),
      limitedTo |-> IF limit < Len(filteredEndpoints) THEN Some(limit) ELSE Undefined,
      notShown |-> IF Len(filteredEndpoints) > limit
                   THEN Some(Len(filteredEndpoints) - limit) ELSE Undefined,
      endpoints |-> ShownAll(limitedEndpoints),
      tip |-> {}]

(* private listAllEndpoints(args) *)
listAllEndpoints(eps, args) ==
  LET byMethod == IF TruthyStr(args.method)
                  THEN FilterSeq(eps, {i \in 1..Len(eps) :
                         toUpperCase(eps[i].method) = toUpperCase(args.method.val)})
                  ELSE eps
      filteredEndpoints ==
                  IF TruthyStr(args.tag)
                  THEN FilterSeq(byMethod, {i \in 1..Len(byMethod) :
                         /\ byMethod[i].tags.def
                         /\ arrayIncludes(byMethod[i].tags.val, args.tag.val)})
                  ELSE byMethod
      limit == IF TruthyNum(args.limit) THEN args.limit.val ELSE Len(filteredEndpoints)
      limitedEndpoints == slice(filteredEndpoints, 0, limit)
  IN [isError |-> FALSE,
      kind |-> "list",
      total |-> Len(filteredEndpoints),
      showing |-> Len(limitedEndpoints),
      limitedTo |-> IF limit < Len(filteredEndpoints) THEN Some(limit) ELSE Undefined,
      notShown |-> IF Len(filteredEndpoints) > limit
                   THEN Some(Len(filteredEndpoints) - limit) ELSE Undefined,
      endpoints |-> ShownAll(limitedEndpoints),
      tip |-> {}]

(* what handleToolCall's catch block returns for an exception *)
Thrown == [isError |-> TRUE, kind |-> "exception", tip |-> {}]

(* Array.prototype.find: the element at the first of the positions that
   satisfy the callback, if any *)
Find(es, hits) ==
  IF hits = {} THEN Undefined
  ELSE Some(es[CHOOSE i \in hits : \A j \in hits : i <= j])

Truthy(b) == b.def /\ b.val

(* a bug: the method argument looked up as given, not in upper case *)
getEndpointDetails_asGiven(eps, args) ==
  IF ~args.method.def THEN Thrown
  ELSE
    LET endpoint == Find(eps, {i \in 1..Len(eps) :
                          Some(eps[i].path) = args.path /\ eps[i].method = args.method.val})
    IN IF ~endpoint.def
       THEN [isError |-> TRUE, kind |-> "endpoint_not_found",
             method |-> args.method.val, path |-> args.path,
             tip |-> {"search_endpoints", "list_all_endpoints"}]
       ELSE [isError |-> FALSE, kind |-> "details",
             method |-> endpoint.val.method, path |-> endpoint.val.path,
             operationId |-> endpoint.val.operationId, summary |-> endpoint.val.summary,
             tags |-> endpoint.val.tags, description |-> endpoint.val.description]

(* a bug: the optional parameters taken as those with required: false *)
getEndpointDetails_explicitFalse(eps, args) ==
  IF ~args.method.def THEN Thrown
  ELSE
    LET path == args.path
        method == toUpperCase(args.method.val)
        endpoint == Find(eps, {i \in 1..Len(eps) :
                          Some(eps[i].path) = path /\ eps[i].method = method})
    IN IF ~endpoint.def
       THEN [isError |-> TRUE, kind |-> "endpoint_not_found",
             method |-> method, path |-> path,
             tip |-> {"search_endpoints", "list_all_endpoints"}]
       ELSE LET e == endpoint.val
                ps == e.parameters
            IN [isError |-> FALSE, kind |-> "details",
                method |-> e.method, path |-> e.path,
                operationId |-> e.operationId, summary |-> e.summary,
                tags |-> e.tags, description |-> e.description,
                pathParams |-> FilterSeq(ps, {i \in 1..Len(ps) : ps[i].in = "path"}),
                queryParams |-> FilterSeq(ps, {i \in 1..Len(ps) : ps[i].in = "query"}),
                requiredParams |-> FilterSeq(ps, {i \in 1..Len(ps) : Truthy(ps[i].required)}),
                optionalParams |-> FilterSeq(ps, {i \in 1..Len(ps) :
                                                   ps[i].required = Some(FALSE)}),
                requestBodySchema |-> e.requestBodySchema,
                responseSchema |-> e.responseSchema]

(* private getEndpointDetails(args) *)
getEndpointDetails(eps, args) ==
  IF ~args.method.def THEN Thrown
  ELSE
    LET path == args.path
        method == toUpperCase(args.method.val)
        endpoint == Find(eps, {i \in 1..Len(eps) :
                          Some(eps[i].path) = path /\ eps[i].method = method})
    IN IF ~endpoint.def
       THEN [isError |-> TRUE, kind |-> "endpoint_not_found",
             method |-> method, path |-> path,
             tip |-> {"search_endpoints", "list_all_endpoints"}]
       ELSE LET e == endpoint.val
                ps == e.parameters
            IN [isError |-> FALSE, kind |-> "details",
                method |-> e.method, path |-> e.path,
                operationId |-> e.operationId, summary |-> e.summary,
                tags |-> e.tags, description |-> e.description,
                pathParams |-> FilterSeq(ps, {i \in 1..Len(ps) : ps[i].in = "path"}),
                queryParams |-> FilterSeq(ps, {i \in 1..Len(ps) : ps[i].in = "query"}),
                requiredParams |-> FilterSeq(ps, {i \in 1..Len(ps) : Truthy(ps[i].required)}),
                optionalParams |-> FilterSeq(ps, {i \in 1..Len(ps) : ~Truthy(ps[i].required)}),
                requestBodySchema |-> e.requestBodySchema,
                responseSchema |-> e.responseSchema]

(* the tag test of getEndpointsByResource, for one tag *)
TagMatchesResource(tag, resource) ==
  \/ includes(toLowerCase(tag), toLowerCase(resource))
  \/ includes(toLowerCase(resource), replace(toLowerCase(tag), FortnoxPrefix, <<>>))

(* e.tags?.some(tag => ...) *)
EndpointMatchesResource(e, resource) ==
  e.tags.def /\ \E i \in 1..Len(e.tags.val) : TagMatchesResource(e.tags.val[i], resource)

(* the five buckets of getEndpointsByResource *)
IsList(e) == e.method = sGET /\ ~includes(e.path, Brace)
IsGet(e) == e.method = sGET /\ includes(e.path, Brace)
IsCreate(e) == e.method = sPOST
(* a bug: PATCH left out of the update bucket *)
IsUpdate_putOnly(e) == e.method = sPUT

IsUpdate(e) == e.method = sPUT \/ e.method = sPATCH
IsDelete(e) == e.method = sDELETE

(* private getEndpointsByResource(args) *)
getEndpointsByResource(eps, args) ==
  IF ~args.resource.def
  THEN (* resource.toLowerCase() throws once a tag is tested *)
       IF \E i \in 1..Len(eps) : eps[i].tags.def /\ eps[i].tags.val # <<>>
       THEN Thrown
       ELSE [isError |-> TRUE, kind |-> "resource_not_found", resource |-> args.resource,
             tip |-> {"list_resource_groups"}]
  ELSE
    LET resource == args.resource.val
        matchingEndpoints ==
          FilterSeq(eps, {i \in 1..Len(eps) : EndpointMatchesResource(eps[i], resource)})
        m == matchingEndpoints
    IN IF Len(matchingEndpoints) = 0
       THEN [isError |-> TRUE, kind |-> "resource_not_found", resource |-> args.resource,
             tip |-> {"list_resource_groups"}]
       ELSE [isError |-> FALSE, kind |-> "resource", resource |-> args.resource,
             total |-> Len(matchingEndpoints),
             list |-> ShownAll(FilterSeq(m, {i \in 1..Len(m) : IsList(m[i])})),
             get |-> ShownAll(FilterSeq(m, {i \in 1..Len(m) : IsGet(m[i])})),
             create |-> ShownAll(FilterSeq(m, {i \in 1..Len(m) : IsCreate(m[i])})),
             update |-> ShownAll(FilterSeq(m, {i \in 1..Len(m) : IsUpdate(m[i])})),
             delete |-> ShownAll(FilterSeq(m, {i \in 1..Len(m) : IsDelete(m[i])}))]

(* the default of search's limit *)
DefaultSearchLimit == 20

(* the number of characters of a description that a search result shows *)
DescriptionShown == 150

(* s.substring(0, n) *)
substring0(s, n) == SubSeq(s, 1, IF n > Len(s) THEN Len(s) ELSE n)

(* what a search result shows of an endpoint *)
Found(e) == [method |-> e.method, path |-> e.path, operationId |-> e.operationId,
             summary |-> e.summary, tags |-> e.tags,
             description |-> IF TruthyStr(e.description)
                             THEN Some(substring0(e.description.val, DescriptionShown))
                             ELSE Undefined]

FoundAll(es) == IF es = <<>> THEN <<>> ELSE [i \in 1..Len(es) |-> Found(es[i])]

(* a bug: the operationId left out of the search *)
SearchMatch_noOperationId(endpoint, keyword) ==
  \/ includes(toLowerCase(endpoint.path), keyword)
  \/ endpoint.summary.def /\ includes(toLowerCase(endpoint.summary.val), keyword)
  \/ endpoint.description.def /\ includes(toLowerCase(endpoint.description.val), keyword)
  \/ endpoint.tags.def /\ \E i \in 1..Len(endpoint.tags.val) :
                            includes(toLowerCase(endpoint.tags.val[i]), keyword)

(* the filter callback of searchEndpoints *)
SearchMatch(endpoint, keyword) ==
  LET pathMatch == includes(toLowerCase(endpoint.path), keyword)
      summaryMatch == endpoint.summary.def /\ includes(toLowerCase(endpoint.summary.val), keyword)
      descMatch == endpoint.description.def
                   /\ includes(toLowerCase(endpoint.description.val), keyword)
      tagMatch == endpoint.tags.def
                  /\ \E i \in 1..Len(endpoint.tags.val) :
                       includes(toLowerCase(endpoint.tags.val[i]), keyword)
      operationMatch == includes(toLowerCase(endpoint.operationId), keyword)
  IN pathMatch \/ summaryMatch \/ descMatch \/ tagMatch \/ operationMatch

(* private searchEndpoints(args) *)
searchEndpoints(eps, args) ==
  IF ~args.keyword.def THEN Thrown
  ELSE
    LET keyword == toLowerCase(args.keyword.val)
        limit == IF TruthyNum(args.limit) THEN args.limit.val ELSE DefaultSearchLimit
        results == FilterSeq(eps, {i \in 1..Len(eps) : SearchMatch(eps[i], keyword)})
        limitedResults == slice(results, 0, limit)
    IN IF Len(results) > 0
       THEN [isError |-> FALSE, kind |-> "search", keyword |-> keyword,
             total |-> Len(results),
             showing |-> Len(limitedResults),
             endpoints |-> FoundAll(limitedResults),
             notShown |-> IF Len(results) > limit
                          THEN Some(Len(results) - limit) ELSE Undefined,
             tip |-> {"get_endpoint_details"}]
       ELSE [isError |-> FALSE, kind |-> "search_empty", keyword |-> keyword,
             total |-> 0, showing |-> 0, endpoints |-> <<>>, notShown |-> Undefined,
             tip |-> {"list_resource_groups"}]

(* the tags of all endpoints, in index order: the iterations of the two
   nested loops that fill tagCounts *)
RECURSIVE TagOccurrences(_)
TagOccurrences(eps) ==
  IF eps = <<>> THEN <<>>
  ELSE (IF Head(eps).tags.def THEN Head(eps).tags.val ELSE <<>>) \o TagOccurrences(Tail(eps))

(* a bug: a tag seen again keeps its count *)
Increment_once(counts, tag) ==
  IF \E i \in 1..Len(counts) : counts[i].key = tag
  THEN counts
  ELSE Append(counts, [key |-> tag, val |-> 1])

(* tagCounts[tag] = (tagCounts[tag] || 0) + 1, on the entries of tagCounts
   in the order in which the keys were created *)
Increment(counts, tag) ==
  IF \E i \in 1..Len(counts) : counts[i].key = tag
  THEN [i \in 1..Len(counts) |->
          IF counts[i].key = tag THEN [key |-> tag, val |-> counts[i].val + 1]
          ELSE counts[i]]
  ELSE Append(counts, [key |-> tag, val |-> 1])

RECURSIVE CountTags(_)
CountTags(occ) ==
  IF occ = <<>> THEN <<>>
  ELSE Increment(CountTags(SubSeq(occ, 1, Len(occ) - 1)), occ[Len(occ)])

(* Array.prototype.sort: a stable sort.  less is the set of the pairs of
   positions <<i, j>> with compare(a[i], a[j]) < 0.  An element ends behind
   the elements that are less than it and behind the earlier elements it is
   not less than. *)
SortRank(n, i, less) ==
  Cardinality({j \in 1..n : <<j, i>> \in less \/ (j < i /\ <<i, j>> \notin less)}) + 1

StableSort(a, less) ==
  IF a = <<>> THEN <<>>
  ELSE [r \in 1..Len(a) |-> a[CHOOSE i \in 1..Len(a) : SortRank(Len(a), i, less) = r]]

(* the pairs of positions of a sequence *)
Pairs(a) == (1..Len(a)) \X (1..Len(a))

(* Object.entries order: the keys that are array indices first, ascending,
   then the other keys in creation order *)
Digits == <<"0","1","2","3","4","5","6","7","8","9">>

IsDigit(c) == \E i \in 1..Len(Digits) : Digits[i] = c

DigitValue(c) == (CHOOSE i \in 1..Len(Digits) : Digits[i] = c) - 1

(* lexicographic order of two sequences of numbers *)
LexLess(a, b) ==
  \E i \in 1..Len(b) :
    /\ i <= Len(a) + 1
    /\ \A j \in 1..(i - 1) : a[j] = b[j]
    /\ (i = Len(a) + 1 \/ a[i] < b[i])

DigitValues(s) == [i \in 1..Len(s) |-> DigitValue(s[i])]

MaxArrayIndex == <<"4","2","9","4","9","6","7","2","9","4">>

(* the order of two canonical numeric strings by their value *)
NumericLess(a, b) ==
  Len(a) < Len(b) \/ (Len(a) = Len(b) /\ LexLess(DigitValues(a), DigitValues(b)))

(* a canonical numeric string not above 2^32 - 2 *)
IsArrayIndex(s) ==
  /\ Len(s) >= 1
  /\ \A i \in 1..Len(s) : IsDigit(s[i])
  /\ (Len(s) > 1 => s[1] # "0")
  /\ ~NumericLess(MaxArrayIndex, s)

objectEntries(created) ==
  LET indices == FilterSeq(created, {i \in 1..Len(created) : IsArrayIndex(created[i].key)})
  IN StableSort(indices, {q \in Pairs(indices) :
                            NumericLess(indices[q[1]].key, indices[q[2]].key)})
     \o FilterSeq(created, {i \in 1..Len(created) : ~IsArrayIndex(created[i].key)})

(* String.prototype.localeCompare under the root collation, on the ASCII
   range without the quotation mark, backslash and backtick: the primary order of
   the characters (letters without case), and lower case before upper case
   where the primary keys are equal *)
CollationOrder == <<" ","_","-",",",";",":","!","?",".","'","(",")",
                    "[","]","{","}","@","*","/","&","#","%","^",
                    "+","<","=",">","|","~","$","0","1","2","3","4","5",
                    "6","7","8","9","a","b","c","d","e","f","g","h","i",
                    "j","k","l","m","n","o","p","q","r","s","t","u","v",
                    "w","x","y","z">>

Weight(c) ==
  LET l == LowerChar(c)
  IN CHOOSE i \in 1..Len(CollationOrder) : CollationOrder[i] = l

IsUpper(c) == \E i \in 1..Len(UpperLetters) : UpperLetters[i] = c

Weights(s) == [i \in 1..Len(s) |-> Weight(s[i])]

Cases(s) == [i \in 1..Len(s) |-> IF IsUpper(s[i]) THEN 1 ELSE 0]

(* a.localeCompare(b) < 0 *)
localeLess(a, b) ==
  \/ LexLess(Weights(a), Weights(b))
  \/ /\ ~LexLess(Weights(b), Weights(a))
     /\ LexLess(Cases(a), Cases(b))

(* the keyword lists of the category rules, in the order of the if-chain *)
CategoryRules == <<
  [category |-> "Core Business",
   keywords |-> <<<<"C","u","s","t","o","m","e","r","s">>,
                 <<"S","u","p","p","l","i","e","r","s">>,
                 <<"E","m","p","l","o","y","e","e","s">>,
                 <<"A","r","t","i","c","l","e","s">>,
                 <<"P","r","o","d","u","c","t","s">>>>],
  [category |-> "Financial",
   keywords |-> <<<<"I","n","v","o","i","c","e">>,
                 <<"P","a","y","m","e","n","t">>,
                 <<"A","c","c","o","u","n","t">>,
                 <<"C","u","r","r","e","n","c","y">>,
                 <<"F","i","n","a","n","c","i","a","l">>>>],
  [category |-> "Documents",
   keywords |-> <<<<"O","r","d","e","r">>,
                 <<"O","f","f","e","r">>,
                 <<"C","o","n","t","r","a","c","t">>,
                 <<"V","o","u","c","h","e","r">>>>],
  [category |-> "Configuration",
   keywords |-> <<<<"S","e","t","t","i","n","g","s">>,
                 <<"M","o","d","e">>,
                 <<"P","r","i","c","e">>,
                 <<"L","a","b","e","l">>,
                 <<"U","n","i","t">>>>] >>

(* a bug: the last matching rule decides the category *)
CategoryOf_lastMatch(tag) ==
  LET hits == {r \in 1..Len(CategoryRules) :
                 \E k \in 1..Len(CategoryRules[r].keywords) :
                    includes(tag, CategoryRules[r].keywords[k])}
  IN IF hits = {} THEN "Other"
     ELSE CategoryRules[CHOOSE r \in hits : \A q \in hits : r >= q].category

(* the category of a tag: the first rule with a keyword the tag includes *)
CategoryOf(tag) ==
  LET hits == {r \in 1..Len(CategoryRules) :
                 \E k \in 1..Len(CategoryRules[r].keywords) :
                    includes(tag, CategoryRules[r].keywords[k])}
  IN IF hits = {} THEN "Other"
     ELSE CategoryRules[CHOOSE r \in hits : \A q \in hits : r <= q].category

CategoryNames == <<"Core Business", "Financial", "Documents", "Configuration", "Other">>

GroupEntry(e) == [name |-> replace(e.key, FortnoxPrefix, <<>>), count |-> e.val]

GroupEntries(es) == IF es = <<>> THEN <<>> ELSE [i \in 1..Len(es) |-> GroupEntry(es[i])]

(* private listResourceGroups() *)
listResourceGroups(eps) ==
  LET tagCounts == CountTags(TagOccurrences(eps))
      entries == objectEntries(tagCounts)
      sorted == StableSort(entries, {q \in Pairs(entries) :
                                       entries[q[2]].val - entries[q[1]].val < 0})
      categories == [i \in 1..Len(CategoryNames) |->
                       [category |-> CategoryNames[i],
                        items |-> GroupEntries(
                                    FilterSeq(sorted, {j \in 1..Len(sorted) :
                                      CategoryOf(sorted[j].key) = CategoryNames[i]}))]]
      alphabetical == StableSort(sorted, {q \in Pairs(sorted) :
                                           localeLess(sorted[q[1]].key, sorted[q[2]].key)})
  IN [isError |-> FALSE, kind |-> "groups",
      totalGroups |-> Len(sorted),
      categories |-> FilterSeq(categories, {i \in 1..Len(categories) :
                                              Len(categories[i].items) > 0}),
      all |-> GroupEntries(alphabetical),
      tip |-> {"get_endpoints_by_resource"}]

(* the number of resource groups that the overview lists *)
TopGroups == 10

(* the methods of all endpoints, in index order: the iterations of the loop
   that fills methodCounts *)
MethodOccurrences(eps) == IF eps = <<>> THEN <<>> ELSE [i \in 1..Len(eps) |-> eps[i].method]

(* a bug: the comparator of the overview as a[1] - b[1] *)
CountDescending_ascending(entries) ==
  {q \in Pairs(entries) : entries[q[1]].val - entries[q[2]].val < 0}

(* the comparator (a, b) => b[1] - a[1]: the pairs of positions <<i, j>>
   with compare(entries[i], entries[j]) < 0 *)
CountDescending(entries) ==
  {q \in Pairs(entries) : entries[q[2]].val - entries[q[1]].val < 0}

(* private getAPIOverview() *)
getAPIOverview(doc, eps) ==
  IF getBaseUrlThrows(doc) THEN Thrown
  ELSE
    LET baseUrl == getBaseUrl(doc)
        methodCounts == CountTags(MethodOccurrences(eps))
        tagCounts == CountTags(TagOccurrences(eps))
        entries == objectEntries(tagCounts)
        sorted == StableSort(entries, CountDescending(entries))
    IN IF ~doc.info.def
       THEN (* spec.info.title throws a TypeError *)
            Thrown
       ELSE [isError |-> FALSE, kind |-> "overview",
             title |-> doc.info.val.title,
             version |-> doc.info.val.version,
             baseUrl |-> baseUrl,
             totalEndpoints |-> Len(eps),
             resourceGroups |-> Len(objectEntries(tagCounts)),
             byMethod |-> objectEntries(methodCounts),
             topGroups |-> slice(sorted, 0, TopGroups),
             description |-> doc.info.val.description,
             tip |-> {"list_resource_groups", "get_endpoints_by_resource",
                      "get_endpoint_details", "search_endpoints"}]

(* `${schemaName}` of an argument that may be undefined *)
sUndefined == <<"u","n","d","e","f","i","n","e","d">>

TemplateString(o) == IF o.def THEN o.val ELSE sUndefined

(* JSON.stringify(value, null, 2): the text of a value parsed from JSON
   denotes that value, nested values included; a function has no text and
   the template renders 'undefined' *)
JSONstringify(value) == IF value = NativeFunction THEN Undefined ELSE Some(value)

(* private getSchemaDetails(args) *)
getSchemaDetails(doc, args) ==
  LET schemaName == args.schemaName
      schema == resolveSchemaRef(doc, RefPrefix \o TemplateString(schemaName))
  IN IF ~schema.def
     THEN [isError |-> TRUE, kind |-> "schema_not_found", schemaName |-> schemaName,
           tip |-> {}]
     ELSE [isError |-> FALSE, kind |-> "schema", schemaName |-> schemaName,
           schema |-> JSONstringify(schema.val)]

----------------------------------------------------------------------------
(* The arguments of the bounded calls *)

(* The largest limit argument of a bounded call *)
MaxLimit == 2

OptOf(S) == {Undefined} \cup {Some(v) : v \in S}

LimitArgs == OptOf(-1..MaxLimit)

MethodArgs == OptOf({<<>>, sGET, toLowerCase(sGET), <<"P","o","s","t">>, sPATCH})

TagArgs == OptOf({<<>>, tagFAb, tagFab})

PathArgs == OptOf(PathPool \cup {<<"/","c","/">>})

DetailMethodArgs == OptOf({sGET, toLowerCase(sGET), <<"P","o","s","t">>, sPATCH})

ResourceArgs == OptOf({<<>>, <<"a","b">>, <<"X","A","B","y">>, <<"z","b">>,
                       tagFAb, <<"n","o","p","e">>})

KeywordArgs == OptOf({<<>>, <<"/","c">>, <<"l","i","s","t">>, sPay, <<"a","b">>,
                      <<"O","P","B">>, <<"z","z">>})

SchemaNameArgs == OptOf({sCu, toLowerCase(sCu), sNo})

----------------------------------------------------------------------------
(* The server: the document is loaded and the index built once, in the
   constructor.  The server then handles one request at a time: a tool call
   runs its handler to completion (call and result hold the request and its
   response), and Respond hands the response to the transport. *)

NoCall == [tool |-> "", args |-> <<>>]

NoResult == [isError |-> FALSE, kind |-> "", tip |-> {}]

(* no schema function is being executed step by step *)
NoFrame == [pc |-> "idle", schema |-> Undefined, pending |-> <<>>, lookups |-> 0]

(* the state in which the constructor of the server leaves a process that
   has loaded the document doc *)
Constructed(doc) ==
  /\ source = [kind |-> "json", json |-> doc]
  /\ parser = "instance"
  /\ spec = doc
  /\ reads = 1
  /\ phase = "serving"
  /\ endpoints = getAllEndpoints(doc)
  /\ call = NoCall
  /\ result = NoResult
  /\ seen = {}
  /\ frame = NoFrame

Init == \E doc \in Documents : Constructed(doc)

Idle == phase = "serving" /\ call = NoCall

CallGetAPIOverview ==
  /\ Idle
  /\ call' = [tool |-> "get_api_overview", args |-> <<>>]
  /\ result' = getAPIOverview(spec, endpoints)
  /\ UNCHANGED process

CallListAllEndpoints ==
  /\ Idle
  /\ \E m \in MethodArgs, t \in TagArgs, l \in LimitArgs :
    LET args == [method |-> m, tag |-> t, limit |-> l]
    IN /\ call' = [tool |-> "list_all_endpoints", args |-> args]
       /\ result' = listAllEndpoints(endpoints, args)
       /\ UNCHANGED process

CallGetEndpointDetails ==
  /\ Idle
  /\ \E p \in PathArgs, m \in DetailMethodArgs :
      LET args == [path |-> p, method |-> m]
      IN /\ call' = [tool |-> "get_endpoint_details", args |-> args]
         /\ result' = getEndpointDetails(endpoints, args)
         /\ UNCHANGED process

CallGetEndpointsByResource ==
  /\ Idle
  /\ \E r \in ResourceArgs :
      LET args == [resource |-> r]
      IN /\ call' = [tool |-> "get_endpoints_by_resource", args |-> args]
         /\ result' = getEndpointsByResource(endpoints, args)
         /\ UNCHANGED process

CallSearchEndpoints ==
  /\ Idle
  /\ \E k \in KeywordArgs, l \in LimitArgs :
      LET args == [keyword |-> k, limit |-> l]
      IN /\ call' = [tool |-> "search_endpoints", args |-> args]
         /\ result' = searchEndpoints(endpoints, args)
         /\ UNCHANGED process

CallListResourceGroups ==
  /\ Idle
  /\ call' = [tool |-> "list_resource_groups", args |-> <<>>]
  /\ result' = listResourceGroups(endpoints)
  /\ UNCHANGED process

CallGetSchemaDetails ==
  /\ Idle
  /\ \E s \in SchemaNameArgs :
      LET args == [schemaName |-> s]
      IN /\ call' = [tool |-> "get_schema_details", args |-> args]
         /\ result' = getSchemaDetails(spec, args)
         /\ UNCHANGED process

Respond ==
  /\ call # NoCall
  /\ call' = NoCall
  /\ result' = NoResult
  /\ UNCHANGED process

Next ==
  \/ CallGetAPIOverview
  \/ CallListAllEndpoints
  \/ CallGetEndpointDetails
  \/ CallGetEndpointsByResource
  \/ CallSearchEndpoints
  \/ CallListResourceGroups
  \/ CallGetSchemaDetails
  \/ Respond

Spec == Init /\ [][Next]_vars

(* The tag statistics: a server constructed from a document of the tag
   statistics serves the two tools that report them. *)
InitGroups == \E doc \in TagDocuments : Constructed(doc)

NextGroups ==
  \/ CallGetAPIOverview
  \/ CallListResourceGroups
  \/ Respond

SpecGroups == InitGroups /\ [][NextGroups]_vars

----------------------------------------------------------------------------
(* Properties.  They are stated on the document, the index and the
   arguments of the call, with their own definitions of "contains" and
   "equals ignoring case". *)

(* a and b are equal ignoring case *)
EqualsCI(a, b) ==
  Len(a) = Len(b) /\ \A i \in 1..Len(a) : LowerChar(a[i]) = LowerChar(b[i])

(* s contains k, ignoring case *)
ContainsCI(s, k) ==
  \E off \in 0..(Len(s) - Len(k)) : \A i \in 1..Len(k) : LowerChar(s[off + i]) = LowerChar(k[i])

(* s contains k exactly *)
Contains(s, k) ==
  \E off \in 0..(Len(s) - Len(k)) : \A i \in 1..Len(k) : s[off + i] = k[i]

(* the first n elements of a sequence, none for n <= 0 *)
Take(s, n) == SubSeq(s, 1, IF n < 0 THEN 0 ELSE IF n > Len(s) THEN Len(s) ELSE n)

CanonicalMethods == <<sGET, sPOST, sPUT, sDELETE, sPATCH>>

IsCall(tool) == call.tool = tool

(* the (path, method key) pairs of the document that define an operation *)
DefinedPairs ==
  {pm \in (1..Len(spec.paths.val)) \X MethodKeys : spec.paths.val[pm[1]].val[pm[2]].def}

PathPos(p) == CHOOSE i \in 1..Len(spec.paths.val) : spec.paths.val[i].key = p

MethodPos(m) == CHOOSE k \in 1..Len(CanonicalMethods) : CanonicalMethods[k] = m

(* C1: listAll() without method, tag and limit returns one entry for every
   (path, method) pair of the document that defines an operation and no
   other entry, ordered by the position of the path in the document and,
   within a path, by GET, POST, PUT, DELETE, PATCH; the strict order makes
   every pair appear once. *)
C1_ListAllCanonical ==
  (IsCall("list_all_endpoints") /\ ~call.args.method.def /\ ~call.args.tag.def
     /\ ~call.args.limit.def) =>
    LET out == result.endpoints
    IN /\ result.total = Cardinality(DefinedPairs)
       /\ Len(out) = Cardinality(DefinedPairs)
       /\ \A i \in 1..Len(out) :
            /\ \E k \in 1..Len(CanonicalMethods) : CanonicalMethods[k] = out[i].method
            /\ \E pm \in DefinedPairs :
                 spec.paths.val[pm[1]].key = out[i].path /\ EqualsCI(pm[2], out[i].method)
       /\ \A pm \in DefinedPairs : \E i \in 1..Len(out) :
            spec.paths.val[pm[1]].key = out[i].path /\ EqualsCI(pm[2], out[i].method)
       /\ \A i, j \in 1..Len(out) : i < j =>
            \/ PathPos(out[i].path) < PathPos(out[j].path)
            \/ /\ out[i].path = out[j].path
               /\ MethodPos(out[i].method) < MethodPos(out[j].method)

(* C1 witness: an unfiltered listing of two paths, one with all five methods *)
C1_Witness ==
  /\ IsCall("list_all_endpoints") /\ ~call.args.method.def /\ ~call.args.tag.def
  /\ ~call.args.limit.def
  /\ Len(spec.paths.val) = 2
  /\ Len(result.endpoints) >= 7

(* what a listing shows of the index *)
IndexShown ==
  IF endpoints = <<>> THEN <<>>
  ELSE [i \in 1..Len(endpoints) |->
          [method |-> endpoints[i].method, path |-> endpoints[i].path,
           operationId |-> endpoints[i].operationId, summary |-> endpoints[i].summary,
           tags |-> endpoints[i].tags]]

HasTag(e, tag) == e.tags.def /\ \E k \in 1..Len(e.tags.val) : e.tags.val[k] = tag

(* the positions of the index that pass the filters, every filter that is
   given (also the empty string) being applied *)
KeptIfGiven(m, tg) ==
  {i \in 1..Len(endpoints) :
     /\ (m.def => EqualsCI(endpoints[i].method, m.val))
     /\ (tg.def => HasTag(endpoints[i], tg.val))}

(* the same, an empty-string filter counting as not given *)
KeptIfNonEmpty(m, tg) ==
  {i \in 1..Len(endpoints) :
     /\ ((m.def /\ m.val # <<>>) => EqualsCI(endpoints[i].method, m.val))
     /\ ((tg.def /\ tg.val # <<>>) => HasTag(endpoints[i], tg.val))}

(* C2 as claimed: listAll(methodFilter, tagFilter) reports and, without a
   limit, returns exactly the endpoints that pass every given filter, as a
   subsequence of the index. *)
C2_FiltersAsClaimed ==
  IsCall("list_all_endpoints") =>
    LET kept == FilterSeq(IndexShown, KeptIfGiven(call.args.method, call.args.tag))
    IN /\ result.total = Len(kept)
       /\ (~call.args.limit.def => result.endpoints = kept)

(* C2 amended: the same for filters that are given and not the empty
   string; an empty-string filter is treated as not given. *)
C2_FiltersNonEmpty ==
  IsCall("list_all_endpoints") =>
    LET kept == FilterSeq(IndexShown, KeptIfNonEmpty(call.args.method, call.args.tag))
    IN /\ result.total = Len(kept)
       /\ (~call.args.limit.def => result.endpoints = kept)

(* C2 witness: a lower-case method filter and a tag filter that keep some
   endpoints of the index and drop others *)
C2_Witness ==
  /\ IsCall("list_all_endpoints")
  /\ call.args.method = Some(toLowerCase(sGET))
  /\ call.args.tag = Some(tagFAb)
  /\ ~call.args.limit.def
  /\ Len(result.endpoints) = 2
  /\ Len(endpoints) > 4

(* C3 as claimed: for every limit given, 0 and negative values included, the
   endpoints shown are the first min(limit, total) of the filtered result,
   the total and the shown count are reported, and truncation is indicated
   exactly when fewer than the total are shown. *)
C3_LimitAsClaimed ==
  (IsCall("list_all_endpoints") /\ call.args.limit.def) =>
    LET kept == FilterSeq(IndexShown, KeptIfNonEmpty(call.args.method, call.args.tag))
    IN /\ result.total = Len(kept)
       /\ result.endpoints = Take(kept, call.args.limit.val)
       /\ result.showing = Len(result.endpoints)
       /\ (result.limitedTo.def <=> result.showing < result.total)
       /\ (result.notShown.def <=> result.showing < result.total)
       /\ (result.notShown.def => result.notShown.val = result.total - result.showing)

(* C4: getDetails finds every (path, method) pair of the index, the method
   given in any case, and returns that endpoint in upper case; a path that
   is not the path of an indexed endpoint with that method is not found. *)
C4_DetailsByKey ==
  (IsCall("get_endpoint_details") /\ call.args.path.def /\ call.args.method.def) =>
    LET at == {i \in 1..Len(endpoints) :
                 /\ endpoints[i].path = call.args.path.val
                 /\ EqualsCI(endpoints[i].method, call.args.method.val)}
    IN /\ Cardinality(at) <= 1
       /\ (at # {} =>
             /\ ~result.isError
             /\ result.kind = "details"
             /\ result.path = call.args.path.val
             /\ EqualsCI(result.method, call.args.method.val)
             /\ \E k \in 1..Len(CanonicalMethods) : CanonicalMethods[k] = result.method
             /\ \A i \in at : /\ result.operationId = endpoints[i].operationId
                              /\ result.tags = endpoints[i].tags
                              /\ result.summary = endpoints[i].summary)
       /\ (at = {} => result.isError /\ result.kind = "endpoint_not_found")

(* C4 witness: a lower-case method finds the endpoint, while the index also
   holds a path that differs from the argument in case only *)
C4_Witness ==
  /\ IsCall("get_endpoint_details")
  /\ call.args.path = Some(pathC)
  /\ call.args.method = Some(toLowerCase(sGET))
  /\ result.kind = "details"
  /\ \E i \in 1..Len(endpoints) : endpoints[i].path = pathCUp

----------------------------------------------------------------------------
DiscoveryTools == {"search_endpoints", "list_all_endpoints", "list_resource_groups"}

HasHint == result.isError /\ result.tip \cap DiscoveryTools # {}

(* C5 as claimed: getDetails on an absent (path, method) pair, getByResource
   with no matching endpoint and getSchema on an unknown name each return
   a result marked as an error whose message names a discovery operation. *)
C5_NotFoundHasHint ==
  /\ (IsCall("get_endpoint_details") /\ call.args.path.def /\ call.args.method.def
        /\ ~\E i \in 1..Len(endpoints) :
              /\ endpoints[i].path = call.args.path.val
              /\ EqualsCI(endpoints[i].method, call.args.method.val))
       => HasHint
  /\ (IsCall("get_endpoints_by_resource") /\ call.args.resource.def
        /\ ~\E i \in 1..Len(endpoints) :
              EndpointMatchesResource(endpoints[i], call.args.resource.val))
       => HasHint
  /\ (IsCall("get_schema_details") /\ call.args.schemaName.def
        /\ ~\E i \in 1..Len(spec.components.val.schemas.val) :
              spec.components.val.schemas.val[i].key = call.args.schemaName.val)
       => HasHint

(* k occurs, ignoring case, in one of the searched fields of e *)
FieldsContain(e, k) ==
  \/ ContainsCI(e.path, k)
  \/ e.summary.def /\ ContainsCI(e.summary.val, k)
  \/ e.description.def /\ ContainsCI(e.description.val, k)
  \/ ContainsCI(e.operationId, k)
  \/ e.tags.def /\ \E n \in 1..Len(e.tags.val) : ContainsCI(e.tags.val[n], k)

SameKey(a, b) == a.path = b.path /\ a.method = b.method

(* the (path, method) keys of a sequence of endpoints *)
KeysOf(es) == IF es = <<>> THEN <<>> ELSE [i \in 1..Len(es) |-> <<es[i].path, es[i].method>>]

(* C6: every endpoint that search(k) returns contains k, ignoring case, in
   its path, summary, description, operationId or a tag; and when the limit
   (20 when omitted) is at least the number of such endpoints of the index,
   all of them are returned. *)
C6_SearchSoundComplete ==
  (IsCall("search_endpoints") /\ call.args.keyword.def) =>
    LET k == call.args.keyword.val
        matches == {i \in 1..Len(endpoints) : FieldsContain(endpoints[i], k)}
        out == result.endpoints
        limit == IF call.args.limit.def THEN call.args.limit.val ELSE DefaultSearchLimit
    IN /\ ~result.isError
       /\ \A j \in 1..Len(out) : \E i \in matches : SameKey(endpoints[i], out[j])
       /\ (limit >= Cardinality(matches) =>
             \A i \in matches : \E j \in 1..Len(out) : SameKey(endpoints[i], out[j]))

(* C6 witness: an upper-case keyword that only an operationId contains *)
C6_Witness ==
  /\ IsCall("search_endpoints")
  /\ call.args.keyword = Some(<<"O","P","B">>)
  /\ ~call.args.limit.def
  /\ Len(result.endpoints) >= 1
  /\ Len(endpoints) >= 4

(* C7 as claimed: search returns its matches in index order, the first
   `limit` of them for every limit given and the first 20 without a limit,
   and reports the number of matches before truncation. *)
C7_SearchLimitAsClaimed ==
  (IsCall("search_endpoints") /\ call.args.keyword.def) =>
    LET k == call.args.keyword.val
        matches == FilterSeq(KeysOf(endpoints),
                             {i \in 1..Len(endpoints) : FieldsContain(endpoints[i], k)})
        limit == IF call.args.limit.def THEN call.args.limit.val ELSE DefaultSearchLimit
    IN /\ result.total = Len(matches)
       /\ KeysOf(result.endpoints) = Take(matches, limit)

RECURSIVE SumLen(_)
SumLen(seqs) == IF seqs = <<>> THEN 0 ELSE Len(Head(seqs)) + SumLen(Tail(seqs))

(* the bucket of an endpoint: 1 list, 2 get, 3 create, 4 update, 5 delete *)
BucketOf(e) ==
  CASE e.method = sGET /\ ~Contains(e.path, Brace) -> 1
    [] e.method = sGET /\ Contains(e.path, Brace) -> 2
    [] e.method = sPOST -> 3
    [] e.method \in {sPUT, sPATCH} -> 4
    [] e.method = sDELETE -> 5
    [] OTHER -> 0

(* C8: the five buckets of a successful getByResource(r) partition the
   matched endpoints: every matched endpoint is in the bucket of its rule
   and in no other, no bucket holds an endpoint that is not matched, and
   the bucket sizes sum to the reported total. *)
C8_BucketsPartition ==
  (IsCall("get_endpoints_by_resource") /\ result.kind = "resource") =>
    LET matched == {i \in 1..Len(endpoints) :
                      EndpointMatchesResource(endpoints[i], call.args.resource.val)}
        buckets == <<result.list, result.get, result.create, result.update, result.delete>>
        InBucket(b, i) == \E j \in 1..Len(buckets[b]) : SameKey(buckets[b][j], endpoints[i])
    IN /\ result.total = Cardinality(matched)
       /\ SumLen(buckets) = result.total
       /\ \A i \in matched : \A b \in 1..5 : InBucket(b, i) <=> b = BucketOf(endpoints[i])
       /\ \A b \in 1..5 : \A j \in 1..Len(buckets[b]) :
            \E i \in matched : SameKey(buckets[b][j], endpoints[i])

(* C8 witness: all five buckets hold an endpoint, update holds PUT and PATCH *)
C8_Witness ==
  /\ IsCall("get_endpoints_by_resource")
  /\ result.kind = "resource"
  /\ Len(result.list) > 0 /\ Len(result.get) > 0 /\ Len(result.create) > 0
  /\ Len(result.delete) > 0
  /\ \E j \in 1..Len(result.update) : result.update[j].method = sPUT
  /\ \E j \in 1..Len(result.update) : result.update[j].method = sPATCH

(* the tag without the prefix 'fortnox_' at its start, ignoring case *)
StripAtStart(tag) ==
  IF Len(tag) >= Len(FortnoxPrefix)
     /\ EqualsCI(SubSeq(tag, 1, Len(FortnoxPrefix)), FortnoxPrefix)
  THEN SubSeq(tag, Len(FortnoxPrefix) + 1, Len(tag))
  ELSE tag

MatchAsClaimed(e, r) ==
  e.tags.def /\ \E n \in 1..Len(e.tags.val) :
    ContainsCI(e.tags.val[n], r) \/ ContainsCI(r, StripAtStart(e.tags.val[n]))

(* C9 as claimed: getByResource(r) matches exactly the endpoints with a tag
   t such that, ignoring case, t contains r or r contains t without the
   prefix 'fortnox_' at its start, and fails with NotFound exactly when no
   endpoint matches. *)
C9_MatchAsClaimed ==
  (IsCall("get_endpoints_by_resource") /\ call.args.resource.def) =>
    LET matched == {i \in 1..Len(endpoints) :
                      MatchAsClaimed(endpoints[i], call.args.resource.val)}
    IN /\ (matched = {} <=> result.kind = "resource_not_found")
       /\ (matched # {} => result.kind = "resource" /\ result.total = Cardinality(matched))

(* the tags of the index and the (endpoint, tag) occurrences of a tag *)
Tagged == {i \in 1..Len(endpoints) : endpoints[i].tags.def}

IndexTags ==
  UNION {{endpoints[i].tags.val[n] : n \in 1..Len(endpoints[i].tags.val)} : i \in Tagged}

TagPairs ==
  UNION {{<<i, n>> : n \in 1..Len(endpoints[i].tags.val)} : i \in Tagged}

Occurrences(tag) ==
  Cardinality({in \in TagPairs : endpoints[in[1]].tags.val[in[2]] = tag})

RECURSIVE SumCounts(_)
SumCounts(entries) ==
  IF entries = <<>> THEN 0 ELSE Head(entries).count + SumCounts(Tail(entries))

RECURSIVE SumCategories(_)
SumCategories(cats) ==
  IF cats = <<>> THEN 0 ELSE SumCounts(Head(cats).items) + SumCategories(Tail(cats))

Reported(tag) == [name |-> replace(tag, FortnoxPrefix, <<>>), count |-> Occurrences(tag)]

(* C10: listResourceGroups() reports every tag of the index once, with the
   number of its (endpoint, tag) occurrences, and the counts sum to the
   number of (endpoint, tag) pairs, in the full list and over the
   categories. *)
C10_GroupCounts ==
  IsCall("list_resource_groups") =>
    /\ ~result.isError
    /\ result.totalGroups = Cardinality(IndexTags)
    /\ Len(result.all) = Cardinality(IndexTags)
    /\ \A tag \in IndexTags :
         Cardinality({j \in 1..Len(result.all) : result.all[j] = Reported(tag)})
           = Cardinality({u \in IndexTags : Reported(u) = Reported(tag)})
    /\ SumCounts(result.all) = Cardinality(TagPairs)
    /\ SumCategories(result.categories) = Cardinality(TagPairs)

(* C10 witness: three tags, one of them on at least three endpoints, and an
   endpoint without tags *)
C10_Witness ==
  /\ IsCall("list_resource_groups")
  /\ result.totalGroups = 3
  /\ \E j \in 1..Len(result.all) : result.all[j].count >= 3
  /\ \E i \in 1..Len(endpoints) : ~endpoints[i].tags.def
  /\ \E i \in 1..Len(endpoints) : endpoints[i].tags.def /\ Len(endpoints[i].tags.val) = 2

----------------------------------------------------------------------------
(* The process: the file, the module variable `parser`, the start of the
   server and the request handlers. *)

sNe == <<"N","e">>

(* a schema with nested properties, one of them a $ref *)
SchemaNested ==
  Schema("object", Undefined, Undefined,
         Some(<<[key |-> <<"a">>, val |-> SchemaRef],
                [key |-> <<"b">>, val |-> SchemaObj]>>),
         Undefined)

(* components.schemas with a nested schema and a schema named 'undefined' *)
SchemasNested ==
  <<[key |-> sCu, val |-> SchemaObj],
    [key |-> sNe, val |-> SchemaNested],
    [key |-> sUndefined, val |-> SchemaRef]>>

InfoOptions == {Undefined, Some(Info)}

ServersOptions == {Undefined, Some(<<>>), Some(Servers)}

PathsOptions ==
  {Undefined, Some(<<>>),
   Some(<<[key |-> pathC, val |-> Restrict(FullItemA, {methods[1], methods[2]})]>>)}

ComponentsOptions ==
  {Undefined, Some([schemas |-> Undefined]), Some([schemas |-> Some(Schemas)]),
   Some([schemas |-> Some(SchemasNested)])}

(* the file openapi.json: missing, not JSON, or the text of a document *)
Sources ==
  {[kind |-> "missing", json |-> Document(Undefined, Undefined, Undefined, Undefined)],
   [kind |-> "malformed", json |-> Document(Undefined, Undefined, Undefined, Undefined)]}
  \cup {[kind |-> "json", json |-> Document(i, sv, ps, c)] :
          i \in InfoOptions, sv \in ServersOptions, ps \in PathsOptions,
          c \in ComponentsOptions}

(* the field spec of a parser that does not exist *)
NoSpec == Document(Undefined, Undefined, Undefined, Undefined)

(* new OpenAPIParser(specPath): readFileSync throws on a missing file and
   JSON.parse on a text that is not JSON *)
OpenAPIParserThrows(src) == src.kind # "json"

(* JSON.parse(readFileSync(specPath)) of a file that holds JSON *)
JSONparse(src) == src.json

(* a bug: the module variable assigned before the constructor has
   returned, so that a failed load leaves an instance without a document *)
getOpenAPIParser_keepsPartial(p, sp, n, src) ==
  IF p = "null"
  THEN IF OpenAPIParserThrows(src)
       THEN [threw |-> TRUE, parser |-> "instance", spec |-> sp, reads |-> n + 1]
       ELSE [threw |-> FALSE, parser |-> "instance", spec |-> JSONparse(src),
             reads |-> n + 1]
  ELSE [threw |-> FALSE, parser |-> p, spec |-> sp, reads |-> n]

(* a bug: getOpenAPIParser() without the test of `parser` *)
getOpenAPIParser_reloads(p, sp, n, src) ==
  IF OpenAPIParserThrows(src)
  THEN [threw |-> TRUE, parser |-> p, spec |-> sp, reads |-> n + 1]
  ELSE [threw |-> FALSE, parser |-> "instance", spec |-> JSONparse(src), reads |-> n + 1]

(* getOpenAPIParser(): what it leaves in the module variable `parser` (p, and
   sp the document the instance holds), the number of reads of the file, and
   whether it threw *)
getOpenAPIParser(p, sp, n, src) ==
  IF p = "null"
  THEN IF OpenAPIParserThrows(src)
       THEN [threw |-> TRUE, parser |-> "null", spec |-> sp, reads |-> n + 1]
       ELSE [threw |-> FALSE, parser |-> "instance", spec |-> JSONparse(src),
             reads |-> n + 1]
  ELSE [threw |-> FALSE, parser |-> p, spec |-> sp, reads |-> n]

(* The largest number of reads of the file *)
MaxReads == 3

(* a bug: six tools advertised *)
generateTools_six ==
  <<"get_api_overview", "list_all_endpoints", "get_endpoint_details",
    "get_endpoints_by_resource", "search_endpoints", "list_resource_groups">>

(* generateTools(): the names of the tools *)
generateTools ==
  <<"get_api_overview", "list_all_endpoints", "get_endpoint_details",
    "get_endpoints_by_resource", "search_endpoints", "list_resource_groups",
    "get_schema_details">>

UnknownTool(toolName) ==
  [isError |-> TRUE, kind |-> "unknown_tool", toolName |-> toolName, tip |-> {}]

(* handleToolCall(toolName, args): args is undefined when the request has no
   arguments, and a handler that reads a property of it throws *)
handleToolCall(toolName, args, doc, eps) ==
  CASE toolName = "get_api_overview" -> getAPIOverview(doc, eps)
    [] toolName = "list_all_endpoints" ->
         IF args.def THEN listAllEndpoints(eps, args.val) ELSE Thrown
    [] toolName = "get_endpoint_details" ->
         IF args.def THEN getEndpointDetails(eps, args.val) ELSE Thrown
    [] toolName = "get_endpoints_by_resource" ->
         IF args.def THEN getEndpointsByResource(eps, args.val) ELSE Thrown
    [] toolName = "search_endpoints" ->
         IF args.def THEN searchEndpoints(eps, args.val) ELSE Thrown
    [] toolName = "list_resource_groups" -> listResourceGroups(eps)
    [] toolName = "get_schema_details" ->
         IF args.def THEN getSchemaDetails(doc, args.val) ELSE Thrown
    [] OTHER -> UnknownTool(toolName)

(* a bug: listAllEndpoints cutting the array it was given (splice for slice),
   which is this.endpoints when no filter is given *)
indexAfterToolCall_splice(toolName, args, eps) ==
  IF toolName = "list_all_endpoints" /\ args.def
     /\ ~TruthyStr(args.val.method) /\ ~TruthyStr(args.val.tag)
     /\ TruthyNum(args.val.limit)
  THEN slice(eps, 0, args.val.limit.val)
  ELSE eps

(* this.endpoints after handleToolCall: no handler assigns the field, and
   the array methods the handlers apply to it (filter, find, slice, map)
   return new arrays; the only sort in place is on the array that
   Object.entries returned *)
indexAfterToolCall(toolName, args, eps) == eps

(* the arguments of the bounded requests: every field a handler reads *)
Arguments(path, method, resource, keyword, schemaName, limit) ==
  [path |-> path, method |-> method, tag |-> Undefined, limit |-> limit,
   resource |-> resource, keyword |-> keyword, schemaName |-> schemaName]

ArgsPool ==
  { Undefined,
    Some(Arguments(Undefined, Undefined, Undefined, Undefined, Undefined, Undefined)),
    Some(Arguments(Some(pathC), Some(toLowerCase(sGET)), Some(<<"a","b">>),
                   Some(<<"o","p">>), Some(sCu), Some(1))),
    Some(Arguments(Some(pathCId), Some(sGET), Some(<<"n","o","p","e">>),
                   Some(<<"z","z">>), Some(sNo), Undefined)),
    Some(Arguments(Some(pathC), Undefined, Undefined, Undefined, Some(sNe), Some(1))),
    Some(Arguments(Undefined, Some(sGET), Undefined, Undefined,
                   Some(<<"c","o","n","s","t","r","u","c","t","o","r">>), Undefined)) }

ToolNameArgs ==
  {generateTools[i] : i \in 1..Len(generateTools)}
  \cup {"GET_API_OVERVIEW", "get_schema", "list_endpoints"}

(* config of the API client: accessToken and baseUrl *)
ClientConfigs ==
  {[accessToken |-> a, baseUrl |-> b] :
     a \in {Undefined, Some(<<"t">>)}, b \in {Undefined, Some(sUrl)}}

InitProcess ==
  /\ source \in Sources
  /\ parser = "null"
  /\ spec = NoSpec
  /\ reads = 0
  /\ phase = "created"
  /\ endpoints = <<>>
  /\ call = NoCall
  /\ result = NoResult
  /\ seen = {}
  /\ frame = NoFrame

(* startServer(): the constructor loads the document and builds the index;
   an exception ends the process *)
StartServer ==
  /\ phase = "created"
  /\ call = NoCall
  /\ LET got == getOpenAPIParser(parser, spec, reads, source)
     IN /\ parser' = got.parser
        /\ spec' = got.spec
        /\ reads' = got.reads
        /\ IF got.threw \/ getAllEndpointsThrows(got.spec)
           THEN phase' = "exited" /\ endpoints' = endpoints
           ELSE phase' = "serving" /\ endpoints' = getAllEndpoints(got.spec)
  /\ UNCHANGED <<source, call, result, seen, frame>>

(* new FortnoxAPIClient(config): another caller of getOpenAPIParser() in
   the process *)
NewFortnoxAPIClient ==
  /\ phase # "exited"
  /\ call = NoCall
  /\ reads < MaxReads
  /\ \E config \in ClientConfigs :
       /\ call' = [tool |-> "new FortnoxAPIClient", args |-> config]
       /\ IF ~TruthyStr(config.accessToken)
          THEN /\ result' = Thrown
               /\ UNCHANGED <<parser, spec, reads>>
          ELSE IF TruthyStr(config.baseUrl)
          THEN /\ result' = [isError |-> FALSE, kind |-> "client",
                             baseUrl |-> config.baseUrl, tip |-> {}]
               /\ UNCHANGED <<parser, spec, reads>>
          ELSE LET got == getOpenAPIParser(parser, spec, reads, source)
               IN /\ parser' = got.parser
                  /\ spec' = got.spec
                  /\ reads' = got.reads
                  /\ result' = IF got.threw \/ getBaseUrlThrows(got.spec)
                               THEN Thrown
                               ELSE [isError |-> FALSE, kind |-> "client",
                                     baseUrl |-> getBaseUrl(got.spec), tip |-> {}]
  /\ UNCHANGED <<source, phase, endpoints, seen, frame>>

(* the handler of ListToolsRequestSchema *)
ListTools ==
  /\ Idle
  /\ call' = [tool |-> "tools/list", args |-> Undefined]
  /\ result' = [isError |-> FALSE, kind |-> "tools", tools |-> generateTools, tip |-> {}]
  /\ UNCHANGED process

(* the handler of CallToolRequestSchema, for any tool name and arguments *)
CallTool ==
  /\ Idle
  /\ \E toolName \in ToolNameArgs, args \in ArgsPool :
       /\ call' = [tool |-> toolName, args |-> args]
       /\ result' = handleToolCall(toolName, args, spec, endpoints)
       /\ endpoints' = indexAfterToolCall(toolName, args, endpoints)
  /\ UNCHANGED <<source, parser, spec, reads, phase, seen, frame>>

(* the kind of an error response, for the history *)
ErrorKind(r) ==
  IF ~r.isError THEN {}
  ELSE IF r.kind = "exception" THEN {"exception"}
  ELSE IF r.kind = "unknown_tool" THEN {"unknown_tool"}
  ELSE {"not_found"}

(* the response is handed to the caller; the history records its kind *)
Return ==
  /\ call # NoCall
  /\ call' = NoCall
  /\ result' = NoResult
  /\ seen' = seen \cup ErrorKind(result)
  /\ UNCHANGED <<source, parser, spec, reads, phase, endpoints, frame>>

NextProcess ==
  \/ StartServer
  \/ NewFortnoxAPIClient
  \/ ListTools
  \/ CallTool
  \/ Return

SpecProcess == InitProcess /\ [][NextProcess]_vars

----------------------------------------------------------------------------
(* a keyword of the named category is a substring of the tag *)
MatchesCategory(tag, name) ==
  \E r \in 1..Len(CategoryRules) :
    /\ CategoryRules[r].category = name
    /\ \E k \in 1..Len(CategoryRules[r].keywords) :
         Contains(tag, CategoryRules[r].keywords[k])

(* the category the rule order gives a tag *)
ClaimedCategory(tag) ==
  IF MatchesCategory(tag, "Core Business") THEN "Core Business"
  ELSE IF MatchesCategory(tag, "Financial") THEN "Financial"
  ELSE IF MatchesCategory(tag, "Documents") THEN "Documents"
  ELSE IF MatchesCategory(tag, "Configuration") THEN "Configuration"
  ELSE "Other"

AllCategories == {"Core Business", "Financial", "Documents", "Configuration", "Other"}

(* the entries that the category breakdown lists under a category *)
ItemsUnder(name) ==
  LET at == {i \in 1..Len(result.categories) : result.categories[i].category = name}
  IN IF at = {} THEN <<>> ELSE result.categories[CHOOSE i \in at : TRUE].items

(* C11: in the category breakdown of listResourceGroups() every tag is
   listed under exactly one category, the first of Core Business,
   Financial, Documents, Configuration with a keyword that is a substring
   of the tag, or Other when there is none; a tag with keywords of two
   categories is listed under the earlier one only, and fortnox_Invoices is
   listed under Financial. *)
C11_CategoryFirstMatch ==
  IsCall("list_resource_groups") =>
    /\ \A i \in 1..Len(result.categories) :
         /\ result.categories[i].category \in AllCategories
         /\ \A j \in 1..Len(result.categories) :
              result.categories[i].category = result.categories[j].category => i = j
    /\ \A tag \in IndexTags : \A c \in AllCategories :
         Cardinality({j \in 1..Len(ItemsUnder(c)) : ItemsUnder(c)[j] = Reported(tag)})
           = Cardinality({u \in IndexTags :
                            Reported(u) = Reported(tag) /\ ClaimedCategory(u) = c})
    /\ (tInvoices \in IndexTags =>
          \E j \in 1..Len(ItemsUnder("Financial")) :
             ItemsUnder("Financial")[j] = Reported(tInvoices))

(* C11 witness: all five categories are listed, for tags that include
   fortnox_Invoices, a tag with a Financial and a Configuration keyword and a
   tag with a Core Business and a Financial keyword *)
C11_Witness ==
  /\ IsCall("list_resource_groups")
  /\ Len(result.categories) = 5
  /\ {tInvoices, tModes, tCustomersInvoice, tPriceOffer} \subseteq IndexTags
  /\ MatchesCategory(tModes, "Financial") /\ MatchesCategory(tModes, "Configuration")
  /\ MatchesCategory(tCustomersInvoice, "Core Business")
  /\ MatchesCategory(tCustomersInvoice, "Financial")

----------------------------------------------------------------------------
(* a comes before b in the alphabet, case and what follows a common
   beginning aside *)
AlphabetLess(a, b) == LexLess(Weights(a), Weights(b))

(* C12 as claimed: the full tag list of listResourceGroups() holds every tag
   once with its count and is sorted alphabetically by the tag name without
   the vendor prefix, also when only some of the tags carry the prefix. *)
C12_SortedByStrippedName ==
  IsCall("list_resource_groups") =>
    /\ Len(result.all) = Cardinality(IndexTags)
    /\ \A tag \in IndexTags : \E j \in 1..Len(result.all) : result.all[j] = Reported(tag)
    /\ \A j \in 1..(Len(result.all) - 1) :
         ~AlphabetLess(result.all[j + 1].name, result.all[j].name)

----------------------------------------------------------------------------
(* the first (endpoint, tag) occurrence of a tag, scanning the endpoints in
   index order and the tags of an endpoint in their order *)
FirstSeen(tag) ==
  CHOOSE p \in TagPairs :
    /\ endpoints[p[1]].tags.val[p[2]] = tag
    /\ \A q \in TagPairs : endpoints[q[1]].tags.val[q[2]] = tag =>
         (p[1] < q[1] \/ (p[1] = q[1] /\ p[2] <= q[2]))

SeenBefore(t, u) ==
  \/ FirstSeen(t)[1] < FirstSeen(u)[1]
  \/ FirstSeen(t)[1] = FirstSeen(u)[1] /\ FirstSeen(t)[2] < FirstSeen(u)[2]

(* t is listed before u: by count, tags of equal count by first appearance *)
BeforeAsClaimed(t, u) ==
  \/ Occurrences(t) > Occurrences(u)
  \/ Occurrences(t) = Occurrences(u) /\ SeenBefore(t, u)

(* the name of a tag is a whole number as JavaScript writes it: digits
   only, no leading zero, below 2^32 - 1 *)
IsIndexName(t) ==
  /\ Len(t) >= 1
  /\ \A i \in 1..Len(t) : t[i] \in {"0","1","2","3","4","5","6","7","8","9"}
  /\ (Len(t) > 1 => t[1] # "0")
  /\ ~NumericLess(MaxArrayIndex, t)

(* the order of the keys of tagCounts: whole numbers first, ascending, then
   the other tags by first appearance *)
KeyBefore(t, u) ==
  \/ IsIndexName(t) /\ ~IsIndexName(u)
  \/ IsIndexName(t) /\ IsIndexName(u) /\ NumericLess(t, u)
  \/ ~IsIndexName(t) /\ ~IsIndexName(u) /\ SeenBefore(t, u)

BeforeInKeyOrder(t, u) ==
  \/ Occurrences(t) > Occurrences(u)
  \/ Occurrences(t) = Occurrences(u) /\ KeyBefore(t, u)

RECURSIVE SumVals(_)
SumVals(entries) == IF entries = <<>> THEN 0 ELSE Head(entries).val + SumVals(Tail(entries))

(* what C13 says of the overview apart from the order of equal counts: a
   count per method, summing to the number of endpoints, and at most ten
   tags, each with its count, the counts descending *)
OverviewCounts ==
  /\ ~result.isError
  /\ result.totalEndpoints = Len(endpoints)
  /\ SumVals(result.byMethod) = Len(endpoints)
  /\ \A j \in 1..Len(result.byMethod) :
       /\ result.byMethod[j].val =
            Cardinality({i \in 1..Len(endpoints) : endpoints[i].method = result.byMethod[j].key})
       /\ \A k \in 1..Len(result.byMethod) :
            result.byMethod[j].key = result.byMethod[k].key => j = k
  /\ \A i \in 1..Len(endpoints) : \E j \in 1..Len(result.byMethod) :
       result.byMethod[j].key = endpoints[i].method
  /\ Len(result.topGroups) =
       (IF Cardinality(IndexTags) < 10 THEN Cardinality(IndexTags) ELSE 10)
  /\ \A j \in 1..Len(result.topGroups) :
       /\ result.topGroups[j].key \in IndexTags
       /\ result.topGroups[j].val = Occurrences(result.topGroups[j].key)
       /\ \A k \in 1..Len(result.topGroups) : j < k =>
            /\ result.topGroups[j].key # result.topGroups[k].key
            /\ result.topGroups[j].val >= result.topGroups[k].val

Listed == {result.topGroups[j].key : j \in 1..Len(result.topGroups)}

(* C13 as claimed: overview() reports a count per HTTP method that sums to
   the number of endpoints and lists at most ten tags, those with the highest
   counts in descending order of count, tags of equal count in the order of
   their first appearance in the index. *)
C13_TopTenFirstSeen ==
  IsCall("get_api_overview") =>
    /\ OverviewCounts
    /\ \A j, k \in 1..Len(result.topGroups) : j < k =>
         BeforeAsClaimed(result.topGroups[j].key, result.topGroups[k].key)
    /\ \A t \in Listed : \A u \in IndexTags \ Listed : BeforeAsClaimed(t, u)

(* C13 amended: the same, tags of equal count being in the order of the keys
   of the counting object: tags whose name is a whole number first, in
   ascending numeric order, then the other tags in the order of their first
   appearance in the index. *)
C13_TopTenKeyOrder ==
  IsCall("get_api_overview") =>
    /\ OverviewCounts
    /\ \A j, k \in 1..Len(result.topGroups) : j < k =>
         BeforeInKeyOrder(result.topGroups[j].key, result.topGroups[k].key)
    /\ \A t \in Listed : \A u \in IndexTags \ Listed : BeforeInKeyOrder(t, u)

(* C13 witness: thirteen tags of three different counts, ten of them listed,
   among them tags of equal count and two tags named by whole numbers that
   first appear after other tags of their count; three methods *)
C13_Witness ==
  /\ IsCall("get_api_overview")
  /\ result.resourceGroups = 13
  /\ Len(result.topGroups) = 10
  /\ result.topGroups[1].val = 3 /\ result.topGroups[2].val = 2
  /\ result.topGroups[3].key = tSeven /\ result.topGroups[4].key = tTen
  /\ result.topGroups[5].val = 1
  /\ SeenBefore(result.topGroups[5].key, tSeven)
  /\ Len(result.byMethod) = 3

----------------------------------------------------------------------------
Serving == phase = "serving"

(* C14 as claimed: in every state in which the server has started and is
   serving queries, overview() and listResourceGroups() return a success
   result, also with zero endpoints and whatever the document holds in
   servers and info. *)
C14_AlwaysSucceed ==
  (Serving /\ call.tool \in {"get_api_overview", "list_resource_groups"}) =>
    ~result.isError

(* the schemas the document defines, by name *)
DefinedSchemas ==
  IF spec.components.def /\ spec.components.val.schemas.def
  THEN spec.components.val.schemas.val
  ELSE <<>>

(* C15 as claimed: getSchema(name) returns the stored definition of
   components.schemas[name] as it is, nested properties and $ref nodes
   included, for every name the document defines, and NotFound for every
   name it does not define. *)
C15_SchemaVerbatimOrNotFound ==
  (Serving /\ IsCall("get_schema_details") /\ call.args.def
     /\ call.args.val.schemaName.def) =>
    LET name == call.args.val.schemaName.val
        at == {i \in 1..Len(DefinedSchemas) : DefinedSchemas[i].key = name}
    IN /\ (at # {} =>
             /\ ~result.isError
             /\ result.kind = "schema"
             /\ \A i \in at : result.schema = Some(DefinedSchemas[i].val))
       /\ (at = {} => result.isError /\ result.kind = "schema_not_found")

(* the required arguments of a tool *)
RequiredOf(tool) ==
  CASE tool = "get_endpoint_details" -> {"path", "method"}
    [] tool = "get_endpoints_by_resource" -> {"resource"}
    [] tool = "search_endpoints" -> {"keyword"}
    [] tool = "get_schema_details" -> {"schemaName"}
    [] OTHER -> {}

(* the request omits a required argument of its tool *)
OmitsRequired ==
  /\ RequiredOf(call.tool) # {}
  /\ (call.args.def => \E f \in RequiredOf(call.tool) : ~call.args.val[f].def)

(* C16 as claimed: a call of getDetails, getByResource, search or getSchema
   that omits a required argument returns a result marked as an error, for
   every document. *)
C16_MissingArgumentIsError ==
  (Serving /\ OmitsRequired) => result.isError

(* the file is not JSON, or the document lacks info, paths or
   components.schemas, or its servers list is absent or empty *)
Deficient(src) ==
  \/ src.kind # "json"
  \/ ~src.json.info.def
  \/ ~src.json.paths.def
  \/ ~src.json.components.def
  \/ ~src.json.components.val.schemas.def
  \/ ~src.json.servers.def
  \/ src.json.servers.val = <<>>

(* C17 as claimed: with such a file the start fails and no query is ever
   served. *)
C17_StartupFailsAsClaimed == Deficient(source) => ~Serving

(* C18: once getOpenAPIParser() has succeeded, the module variable holds the
   parser of the document of the file, and no later step (the start of the
   server, another client) replaces the instance, changes its document or
   reads the file again. *)
C18_LoadedOnce ==
  /\ [](parser = "instance" => spec = JSONparse(source) /\ reads >= 1)
  /\ [][parser = "instance" =>
         (parser' = parser /\ spec' = spec /\ reads' = reads)]_vars

(* C18 witness: a client that takes its base URL from the parser is
   constructed in a serving process, after the one read of the file *)
C18_Witness ==
  /\ Serving
  /\ IsCall("new FortnoxAPIClient")
  /\ ~call.args.baseUrl.def
  /\ result.kind = "client"
  /\ result.baseUrl = Some(sUrl)
  /\ parser = "instance"
  /\ reads = 1

(* C19: while the server serves, the document and the index are those of
   the start, whatever calls came before, and the response to a request is
   what handleToolCall gives on the document and index of the start. *)
C19_QueriesChangeNothing ==
  Serving =>
    /\ spec = JSONparse(source)
    /\ endpoints = getAllEndpoints(JSONparse(source))
    /\ (call.tool \in ToolNameArgs =>
          result = handleToolCall(call.tool, call.args, JSONparse(source),
                                  getAllEndpoints(JSONparse(source))))

(* C19 witness: after a NotFound, an exception for a missing argument and an
   unknown tool, a listing with a limit below the size of the index *)
C19_Witness ==
  /\ Serving
  /\ seen = {"not_found", "exception", "unknown_tool"}
  /\ IsCall("list_all_endpoints")
  /\ call.args.def /\ call.args.val.limit = Some(1)
  /\ ~result.isError
  /\ result.total = 2 /\ result.showing = 1

SevenTools ==
  {"get_api_overview", "list_all_endpoints", "get_endpoint_details",
   "get_endpoints_by_resource", "search_endpoints", "list_resource_groups",
   "get_schema_details"}

(* the results of the operation of a tool, an exception included *)
KindsOf(tool) ==
  CASE tool = "get_api_overview" -> {"overview", "exception"}
    [] tool = "list_all_endpoints" -> {"list", "exception"}
    [] tool = "get_endpoint_details" -> {"details", "endpoint_not_found", "exception"}
    [] tool = "get_endpoints_by_resource" -> {"resource", "resource_not_found", "exception"}
    [] tool = "search_endpoints" -> {"search", "search_empty", "exception"}
    [] tool = "list_resource_groups" -> {"groups"}
    [] tool = "get_schema_details" -> {"schema", "schema_not_found", "exception"}
    [] OTHER -> {}

(* C20: the server lists exactly the seven tools, whatever the document;
   a call of one of them gets a result of its operation, and a call of any
   other name gets the 'Unknown tool' result, marked as an error. *)
C20_SevenTools ==
  /\ IsCall("tools/list") =>
       /\ Len(result.tools) = 7
       /\ {result.tools[i] : i \in 1..Len(result.tools)} = SevenTools
  /\ (call # NoCall /\ call.tool \notin {"tools/list", "new FortnoxAPIClient"}) =>
       IF call.tool \in SevenTools
       THEN result.kind \in KindsOf(call.tool)
       ELSE result.isError /\ result.kind = "unknown_tool" /\ result.toolName = call.tool

(* C20 witness: a tool name that differs from a listed one in case only *)
C20_Witness ==
  /\ IsCall("GET_API_OVERVIEW")
  /\ result.kind = "unknown_tool"
  /\ Len(endpoints) = 2

----------------------------------------------------------------------------
(* the parameters that the document gives the operation of a path under a
   method, none when the operation has no parameters *)
ParametersOf(p, m) ==
  LET operation == spec.paths.val[PathPos(p)].val[toLowerCase(m)].val
  IN IF operation.parameters.def THEN operation.parameters.val ELSE <<>>

(* the number of positions of a list that hold a value *)
CountIn(list, v) == Cardinality({j \in 1..Len(list) : list[j] = v})

(* list holds the elements of ps at the positions keep, in their order *)
IsSelection(list, ps, keep) == list = FilterSeq(ps, keep)

(* C21: a successful getDetails lists as path parameters exactly the
   parameters of the endpoint with in = path and as query parameters exactly
   those with in = query; its required and optional lists are disjoint and
   together hold every parameter of the endpoint, each once, the header and
   cookie parameters included, which are in neither the path nor the query
   list. *)
C21_ParameterPartition ==
  (IsCall("get_endpoint_details") /\ result.kind = "details") =>
    LET ps == ParametersOf(result.path, result.method)
        all == {ps[i] : i \in 1..Len(ps)}
    IN /\ IsSelection(result.pathParams, ps, {i \in 1..Len(ps) : ps[i].in = "path"})
       /\ IsSelection(result.queryParams, ps, {i \in 1..Len(ps) : ps[i].in = "query"})
       /\ Len(result.requiredParams) + Len(result.optionalParams) = Len(ps)
       /\ \A q \in all :
            /\ CountIn(result.requiredParams, q) + CountIn(result.optionalParams, q)
                 = CountIn(ps, q)
            /\ CountIn(result.requiredParams, q) = 0 \/ CountIn(result.optionalParams, q) = 0
            /\ (CountIn(result.requiredParams, q) > 0 <=> q.required = Some(TRUE))
            /\ (q.in \in {"header", "cookie"} =>
                  CountIn(result.pathParams, q) = 0 /\ CountIn(result.queryParams, q) = 0)

(* C21 witness: the details of an endpoint with a cookie, a query, a header
   and a path parameter: two of them required, one optional by
   required: false and one by the absence of required *)
C21_Witness ==
  /\ IsCall("get_endpoint_details")
  /\ result.kind = "details"
  /\ ParametersOf(result.path, result.method)
       = <<ParamCookie, ParamQuery, ParamHeader, ParamPath>>
  /\ result.pathParams = <<ParamPath>>
  /\ result.queryParams = <<ParamQuery>>
  /\ result.requiredParams = <<ParamCookie, ParamPath>>
  /\ result.optionalParams = <<ParamQuery, ParamHeader>>

----------------------------------------------------------------------------
(* the operation from which an endpoint of the index was built *)
OperationOf(e) == spec.paths.val[PathPos(e.path)].val[toLowerCase(e.method)].val

(* the status codes under which an operation has a response *)
StatusCodes(operation) == {operation.responses[i].key : i \in 1..Len(operation.responses)}

ResponseUnder(operation, code) ==
  operation.responses[CHOOSE i \in 1..Len(operation.responses) :
                        operation.responses[i].key = code].val

(* the schema that a response carries: that of the first media type of its
   content, as for the request body; none without content or media type *)
SchemaCarried(response) ==
  IF response.content.def /\ Len(response.content.val) > 0
  THEN response.content.val[1].val.schema
  ELSE Undefined

(* the response schema of an operation: from the 200 response when there is
   one, otherwise from the 201 response when there is one, otherwise none *)
ClaimedResponseSchema(operation) ==
  IF "200" \in StatusCodes(operation) THEN SchemaCarried(ResponseUnder(operation, "200"))
  ELSE IF "201" \in StatusCodes(operation) THEN SchemaCarried(ResponseUnder(operation, "201"))
  ELSE Undefined

(* C22: the response schema of every endpoint of the index is that of the
   200 response of its operation when the operation has one, otherwise that
   of the 201 response when it has one, otherwise absent; a 200 response
   without a schema leaves it absent even when a 201 response has one, and
   the responses under other status codes make no difference. *)
C22_ResponseSchema ==
  \A i \in 1..Len(endpoints) :
    LET operation == OperationOf(endpoints[i])
    IN /\ endpoints[i].responseSchema = ClaimedResponseSchema(operation)
       /\ (("200" \in StatusCodes(operation)
             /\ ~SchemaCarried(ResponseUnder(operation, "200")).def)
            => ~endpoints[i].responseSchema.def)
       /\ (StatusCodes(operation) \cap {"200", "201"} = {}
            => ~endpoints[i].responseSchema.def)

(* the index holds an endpoint built from an operation with these responses
   and with (or without) this response schema *)
Built(responses, schema) ==
  \E i \in 1..Len(endpoints) :
    OperationOf(endpoints[i]).responses = responses /\ endpoints[i].responseSchema = schema

(* C22 witness: an index with endpoints built from a 200 and a 201 response
   that both carry a schema, from a 201 response followed by other codes, from
   a 200 response without content or without a schema beside a 201 response
   with one, and from responses under other codes only; the details of the
   endpoint with the 200 response without content show no response schema *)
C22_Witness ==
  /\ IsCall("get_endpoint_details")
  /\ result.kind = "details"
  /\ OperationOf(result).responses = RespEmpty200
  /\ ~result.responseSchema.def
  /\ Built(RespBoth, Some(SchemaObj))
  /\ Built(Resp201Later, Some(SchemaRef))
  /\ Built(RespEmpty200, Undefined)
  /\ Built(RespPlain200, Undefined)
  /\ Built(RespOthers, Undefined)

----------------------------------------------------------------------------
(* The schema functions: resolveSchemaRef, getSchemaDescription and
   getSchemaDetails executed step by step, on documents whose schemas
   reference themselves and each other.  A step is what the code does
   between two program points; frame.lookups counts the lookups in
   components.schemas, frame.pending holds the nodes that JSON.stringify has
   still to visit. *)

sSe == <<"S","e">>
sPi == <<"P","i">>
sPo == <<"P","o">>
sWi == <<"W","i">>
sLi == <<"L","i">>
sEm == <<"E","m">>
sConstructor == <<"c","o","n","s","t","r","u","c","t","o","r">>

(* the $ref that names a schema of components.schemas *)
RefTo(name) == RefPrefix \o name

(* a schema that references itself *)
SchemaSelf == Schema("", Some(RefTo(sSe)), Undefined, Undefined, Undefined)

(* two schemas that reference each other, one with a description of its own *)
SchemaPing == Schema("", Some(RefTo(sPo)), Some(sList), Undefined, Undefined)
SchemaPong == Schema("", Some(RefTo(sPi)), Undefined, Undefined, Undefined)

SchemaString == Schema("string", Undefined, Undefined, Undefined, Undefined)

(* an object schema with a description *)
SchemaDescribed ==
  Schema("object", Undefined, Some(sPay),
         Some(<<[key |-> <<"a">>, val |-> SchemaString]>>), Undefined)

(* an object schema with four properties, one of them a reference to the
   schema itself and one a list of references to it *)
SchemaWide ==
  Schema("object", Undefined, Undefined,
         Some(<<[key |-> <<"d">>, val |-> Schema("", Some(RefTo(sWi)), Undefined,
                                                 Undefined, Undefined)],
                [key |-> <<"c">>, val |-> SchemaString],
                [key |-> <<"b">>, val |-> Schema("array", Undefined, Undefined, Undefined,
                                                 Some(Schema("", Some(RefTo(sWi)), Undefined,
                                                             Undefined, Undefined)))],
                [key |-> <<"a">>, val |-> SchemaString]>>),
         Undefined)

(* an array schema whose items reference a schema that references itself *)
SchemaList == Schema("array", Undefined, Undefined, Undefined, Some(SchemaSelf))

(* a schema whose description is the empty string *)
SchemaEmptyDescription == Schema("integer", Undefined, Some(<<>>), Undefined, Undefined)

SchemasCyclic ==
  <<[key |-> sCu, val |-> SchemaDescribed],
    [key |-> sSe, val |-> SchemaSelf],
    [key |-> sPi, val |-> SchemaPing],
    [key |-> sPo, val |-> SchemaPong],
    [key |-> sWi, val |-> SchemaWide],
    [key |-> sLi, val |-> SchemaList],
    [key |-> sEm, val |-> SchemaEmptyDescription]>>

SchemaDocuments ==
  {Document(Some(Info), Some(Servers), Some(<<>>), c) :
     c \in ComponentsOptions \cup {Some([schemas |-> Some(SchemasCyclic)])}}

(* the arguments of resolveSchemaRef: references to defined and undefined
   names, and strings of other shapes *)
RefPool ==
  {RefTo(sCu), RefTo(sSe), RefTo(sPi), RefTo(sWi), RefTo(sNo), RefTo(sConstructor),
   RefTo(<<>>), RefTo(RefTo(sCu)),
   SubSeq(RefPrefix, 1, Len(RefPrefix) - 1),
   <<"#","/","d","e","f","s","/">> \o sCu,
   sCu, <<>>, <<"x">> \o RefTo(sCu), toUpperCase(RefPrefix) \o sCu}

PropertiesOf(names) == [i \in 1..Len(names) |-> [key |-> names[i], val |-> SchemaString]]

(* the arguments of getSchemaDescription *)
DescribePool ==
  { Schema("", Some(RefTo(sCu)), Undefined, Undefined, Undefined),
    Schema("object", Some(RefTo(sPi)), Some(sOpA), Some(PropertiesOf(<<sOpB>>)), Undefined),
    Schema("string", Some(RefTo(sPo)), Some(sOpA), Undefined, Undefined),
    Schema("", Some(RefTo(sSe)), Undefined, Undefined, Undefined),
    Schema("", Some(RefTo(sEm)), Undefined, Undefined, Undefined),
    Schema("", Some(RefTo(sNo)), Some(sOpA), Undefined, Undefined),
    Schema("", Some(RefTo(sConstructor)), Undefined, Undefined, Undefined),
    Schema("array", Some(sCu), Undefined, Undefined, Some(SchemaString)),
    Schema("string", Some(<<>>), Undefined, Undefined, Undefined),
    Schema("object", Undefined, Some(sOpA), Some(PropertiesOf(<<sOpB>>)), Undefined),
    Schema("array", Undefined, Some(sOpA), Undefined, Some(SchemaString)),
    SchemaEmptyDescription,
    Schema("object", Undefined, Undefined, Some(PropertiesOf(<<sOpB, sOpA>>)), Undefined),
    Schema("object", Undefined, Undefined, Some(PropertiesOf(<<sOpB, sOpA, sOpD>>)), Undefined),
    Schema("object", Undefined, Undefined,
           Some(PropertiesOf(<<sOpB, sOpA, <<"2">>, <<"1">>>>)), Undefined),
    Schema("object", Undefined, Undefined, Some(<<>>), Undefined),
    Schema("object", Undefined, Undefined, Undefined, Some(SchemaString)),
    Schema("array", Undefined, Undefined, Some(PropertiesOf(<<sOpB>>)), Some(SchemaString)),
    Schema("array", Undefined, Undefined, Undefined, Some(SchemaSelf)),
    Schema("array", Undefined, Undefined, Some(PropertiesOf(<<sOpB>>)), Undefined),
    Schema("", Undefined, Undefined, Some(PropertiesOf(<<sOpB>>)), Some(SchemaString)),
    SchemaString,
    Schema("", Undefined, Undefined, Undefined, Undefined) }

(* the schemaName arguments of getSchemaDetails *)
SchemaNamePool ==
  OptOf({sCu, sSe, sPi, sWi, sLi, sNo, sConstructor})

(* a string that getSchemaDescription returns, by its parts: a literal
   beginning, a type word, a text of the document or a list of names, and a
   literal end.  The string is their concatenation. *)
Described(prefix, word, text, suffix) ==
  [prefix |-> prefix, word |-> word, text |-> text, suffix |-> suffix]

(* the literal 'Schema reference' *)
sSchemaReference == <<"S","c","h","e","m","a"," ","r","e","f","e","r","e","n","c","e">>

(* names.join(', ') *)
RECURSIVE Join(_)
Join(names) ==
  IF names = <<>> THEN <<>>
  ELSE IF Len(names) = 1 THEN names[1]
  ELSE names[1] \o <<",", " ">> \o Join(Tail(names))

(* Object.keys(obj) of the entries of a parsed object: the keys that are
   array indices first, ascending, then the other keys as written *)
KeyPrecedes(entries, j, i) ==
  \/ IsArrayIndex(entries[j].key) /\ ~IsArrayIndex(entries[i].key)
  \/ IsArrayIndex(entries[j].key) /\ IsArrayIndex(entries[i].key)
       /\ NumericLess(entries[j].key, entries[i].key)
  \/ ~IsArrayIndex(entries[j].key) /\ ~IsArrayIndex(entries[i].key) /\ j < i

objectKeys(entries) ==
  [r \in 1..Len(entries) |->
     entries[CHOOSE i \in 1..Len(entries) :
               Cardinality({j \in 1..Len(entries) : KeyPrecedes(entries, j, i)}) = r - 1].key]

(* the number of property names that a description lists *)
NamesShown == 3

(* getSchemaDescription from its second if on: a schema that is not
   treated as a reference *)
OwnDescription(schema) ==
  IF TruthyStr(schema.description)
  THEN Described("", "", schema.description.val, "")
  ELSE IF schema.type = "object" /\ schema.properties.def
  THEN LET keys == objectKeys(schema.properties.val)
       IN Described("Object with properties: ", "", Join(slice(keys, 0, NamesShown)),
                    IF Len(keys) > NamesShown THEN "..." ELSE "")
  ELSE IF schema.type = "array" /\ schema.items.def
  THEN Described("Array of ",
                 IF schema.items.val.type # "" THEN schema.items.val.type ELSE "items",
                 <<>>, "")
  ELSE Described("", IF schema.type # "" THEN schema.type ELSE "unknown", <<>>, "")

(* resolved?.description || 'Schema reference' *)
ResolvedDescription(resolved) ==
  IF resolved.def /\ TruthyStr(resolved.val.description)
  THEN Described("", "", resolved.val.description.val, "")
  ELSE Described("", "", sSchemaReference, "")

(* the number of lookups of a call of resolveSchemaRef *)
LookupsOf(ref) == IF startsWith(ref, RefPrefix) THEN 1 ELSE 0

Returned(fr, text) ==
  [frame |-> [pc |-> "done", schema |-> fr.schema, pending |-> <<>>, lookups |-> fr.lookups],
   result |-> [isError |-> FALSE, kind |-> "description", text |-> text, tip |-> {}]]

Running(pc, schema, pending, lookups) ==
  [frame |-> [pc |-> pc, schema |-> schema, pending |-> pending, lookups |-> lookups],
   result |-> NoResult]

(* a bug: the schema's own description tested before its $ref *)
getSchemaDescription_ownFirst(doc, fr) ==
  IF fr.pc = "describe"
  THEN IF TruthyStr(fr.schema.val.description)
       THEN Returned(fr, OwnDescription(fr.schema.val))
       ELSE IF TruthyStr(fr.schema.val.ref)
       THEN Running("resolved", resolveSchemaRef(doc, fr.schema.val.ref.val), <<>>,
                    fr.lookups + LookupsOf(fr.schema.val.ref.val))
       ELSE Returned(fr, OwnDescription(fr.schema.val))
  ELSE Returned(fr, ResolvedDescription(fr.schema))

(* a bug: a resolved schema that is a reference described in its turn *)
getSchemaDescription_follows(doc, fr) ==
  IF fr.pc = "describe"
  THEN IF TruthyStr(fr.schema.val.ref)
       THEN Running("resolved", resolveSchemaRef(doc, fr.schema.val.ref.val), <<>>,
                    fr.lookups + LookupsOf(fr.schema.val.ref.val))
       ELSE Returned(fr, OwnDescription(fr.schema.val))
  ELSE IF fr.schema.def /\ TruthyStr(fr.schema.val.ref)
       THEN Running("describe", fr.schema, <<>>, fr.lookups)
       ELSE Returned(fr, ResolvedDescription(fr.schema))

(* getSchemaDescription(schema), one step: from its entry ("describe") to
   the return or to the point after the call of resolveSchemaRef
   ("resolved"), and from there to the return *)
getSchemaDescription(doc, fr) ==
  IF fr.pc = "describe"
  THEN IF TruthyStr(fr.schema.val.ref)
       THEN Running("resolved", resolveSchemaRef(doc, fr.schema.val.ref.val), <<>>,
                    fr.lookups + LookupsOf(fr.schema.val.ref.val))
       ELSE Returned(fr, OwnDescription(fr.schema.val))
  ELSE Returned(fr, ResolvedDescription(fr.schema))

(* the values that JSON.stringify visits below a schema node: those of its
   properties and its items; a $ref is a string *)
ChildrenOf(node) ==
  (IF node.properties.def /\ Len(node.properties.val) > 0
   THEN [i \in 1..Len(node.properties.val) |-> node.properties.val[i].val]
   ELSE <<>>)
  \o (IF node.items.def THEN <<node.items.val>> ELSE <<>>)

(* The largest number of lookups of a call *)
MaxLookups == 3

(* the argument of a call of a schema function: the ref of resolveSchemaRef,
   the schema of getSchemaDescription or the schemaName of getSchemaDetails *)
SchemaArgs(ref, schema, schemaName) ==
  [ref |-> ref, schema |-> schema, schemaName |-> schemaName]

(* no schema function has been called *)
NoSchemaCall == [tool |-> "", args |-> SchemaArgs(Undefined, Undefined, Undefined)]

InitSchemas ==
  /\ \E doc \in SchemaDocuments :
       /\ source = [kind |-> "json", json |-> doc]
       /\ spec = doc
       /\ endpoints = getAllEndpoints(doc)
  /\ parser = "instance"
  /\ reads = 1
  /\ phase = "serving"
  /\ call = NoSchemaCall
  /\ result = NoResult
  /\ seen = {}
  /\ frame = NoFrame

EnterResolveSchemaRef ==
  /\ phase = "serving"
  /\ frame = NoFrame
  /\ \E ref \in RefPool :
       /\ call' = [tool |-> "resolveSchemaRef",
                   args |-> SchemaArgs(Some(ref), Undefined, Undefined)]
       /\ frame' = [pc |-> "resolve", schema |-> Undefined, pending |-> <<>>, lookups |-> 0]
  /\ UNCHANGED <<source, parser, spec, reads, phase, endpoints, result, seen>>

EnterGetSchemaDescription ==
  /\ phase = "serving"
  /\ frame = NoFrame
  /\ \E schema \in DescribePool :
       /\ call' = [tool |-> "getSchemaDescription",
                   args |-> SchemaArgs(Undefined, Some(schema), Undefined)]
       /\ frame' = [pc |-> "describe", schema |-> Some(schema), pending |-> <<>>,
                    lookups |-> 0]
  /\ UNCHANGED <<source, parser, spec, reads, phase, endpoints, result, seen>>

EnterGetSchemaDetails ==
  /\ phase = "serving"
  /\ frame = NoFrame
  /\ \E name \in SchemaNamePool :
       /\ call' = [tool |-> "get_schema_details",
                   args |-> SchemaArgs(Undefined, Undefined, name)]
       /\ frame' = [pc |-> "getSchema", schema |-> Undefined, pending |-> <<>>,
                    lookups |-> 0]
  /\ UNCHANGED <<source, parser, spec, reads, phase, endpoints, result, seen>>

(* resolveSchemaRef(ref): straight-line code *)
StepResolveSchemaRef ==
  /\ IsCall("resolveSchemaRef")
  /\ frame.pc = "resolve"
  /\ LET resolved == resolveSchemaRef(spec, call.args.ref.val)
     IN /\ frame' = [pc |-> "done", schema |-> resolved, pending |-> <<>>,
                     lookups |-> frame.lookups + LookupsOf(call.args.ref.val)]
        /\ result' = [isError |-> FALSE, kind |-> "resolved", value |-> resolved, tip |-> {}]
  /\ UNCHANGED <<source, parser, spec, reads, phase, endpoints, call, seen>>

StepGetSchemaDescription ==
  /\ IsCall("getSchemaDescription")
  /\ frame.pc \in {"describe", "resolved"}
  /\ frame.lookups < MaxLookups
  /\ LET next == getSchemaDescription(spec, frame)
     IN frame' = next.frame /\ result' = next.result
  /\ UNCHANGED <<source, parser, spec, reads, phase, endpoints, call, seen>>

(* getSchemaDetails(args): the call of resolveSchemaRef, and then
   JSON.stringify visiting the nodes of the schema one by one *)
StepGetSchemaDetails ==
  /\ IsCall("get_schema_details")
  /\ frame.pc \in {"getSchema", "stringify"}
  /\ IF frame.pc = "getSchema"
     THEN LET ref == RefPrefix \o TemplateString(call.args.schemaName)
              schema == resolveSchemaRef(spec, ref)
          IN IF ~schema.def
             THEN /\ frame' = [pc |-> "done", schema |-> schema, pending |-> <<>>,
                               lookups |-> frame.lookups + LookupsOf(ref)]
                  /\ result' = getSchemaDetails(spec, call.args)
             ELSE /\ frame' = [pc |-> "stringify", schema |-> schema,
                               pending |-> <<schema.val>>,
                               lookups |-> frame.lookups + LookupsOf(ref)]
                  /\ result' = result
     ELSE IF frame.pending = <<>>
          THEN /\ frame' = [frame EXCEPT !.pc = "done"]
               /\ result' = getSchemaDetails(spec, call.args)
          ELSE /\ frame' = [frame EXCEPT
                              !.pending = ChildrenOf(Head(frame.pending))
                                            \o Tail(frame.pending)]
               /\ result' = result
  /\ UNCHANGED <<source, parser, spec, reads, phase, endpoints, call, seen>>

(* the function returns to its caller *)
Leave ==
  /\ frame.pc = "done"
  /\ call' = NoSchemaCall
  /\ result' = NoResult
  /\ frame' = NoFrame
  /\ UNCHANGED <<source, parser, spec, reads, phase, endpoints, seen>>

NextSchemas ==
  \/ EnterResolveSchemaRef
  \/ EnterGetSchemaDescription
  \/ EnterGetSchemaDetails
  \/ StepResolveSchemaRef
  \/ StepGetSchemaDescription
  \/ StepGetSchemaDetails
  \/ Leave

SpecSchemas == InitSchemas /\ [][NextSchemas]_vars

(* the code is synchronous: a function that has been entered runs on *)
SpecSchemasFair ==
  /\ SpecSchemas
  /\ WF_frame(StepResolveSchemaRef)
  /\ WF_frame(StepGetSchemaDescription)
  /\ WF_frame(StepGetSchemaDetails)

Done(tool) == IsCall(tool) /\ frame.pc = "done"

----------------------------------------------------------------------------
(* ref is the prefix '#/components/schemas/' followed by a name *)
HasRefForm(ref) ==
  /\ Len(ref) >= Len(RefPrefix)
  /\ \A i \in 1..Len(RefPrefix) : ref[i] = RefPrefix[i]

NameIn(ref) == SubSeq(ref, Len(RefPrefix) + 1, Len(ref))

DefinedAt(name) == {i \in 1..Len(DefinedSchemas) : DefinedSchemas[i].key = name}

(* C23 as claimed: resolve(ref) raises no error; it returns
   components.schemas[name] when ref is '#/components/schemas/' followed by a
   name that the document defines, and undefined for every ref of another
   shape, for every name that the document does not define, and when the
   document has no components.schemas. *)
C23_ResolveAsClaimed ==
  Done("resolveSchemaRef") =>
    /\ ~result.isError
    /\ IF HasRefForm(call.args.ref.val) /\ DefinedAt(NameIn(call.args.ref.val)) # {}
       THEN \A i \in DefinedAt(NameIn(call.args.ref.val)) :
              result.value = Some(DefinedSchemas[i].val)
       ELSE result.value = Undefined

----------------------------------------------------------------------------
(* an optional string counts as given: when it is there, or, with the empty
   string counting as absent, when it is there and not empty *)
Given(o, emptyIsAbsent) == o.def /\ (emptyIsAbsent => o.val # <<>>)

(* the schema that a $ref names in the document, if it names one *)
TargetOf(ref) ==
  IF HasRefForm(ref) /\ DefinedAt(NameIn(ref)) # {}
  THEN Some(DefinedSchemas[CHOOSE i \in DefinedAt(NameIn(ref)) : TRUE].val)
  ELSE Undefined

(* the j-th property comes before the i-th in the key order of the
   properties object: names that are whole numbers first, ascending, then
   the other names as written *)
NameBefore(props, j, i) ==
  \/ IsIndexName(props[j].key) /\ ~IsIndexName(props[i].key)
  \/ IsIndexName(props[j].key) /\ IsIndexName(props[i].key)
       /\ NumericLess(props[j].key, props[i].key)
  \/ ~IsIndexName(props[j].key) /\ ~IsIndexName(props[i].key) /\ j < i

(* the first n property names in that order, fewer when there are fewer:
   the names at positions that are listed in that order and that come
   before every position that is not listed *)
FirstNames(props, n) ==
  LET shown == IF Len(props) < n THEN Len(props) ELSE n
      at == CHOOSE ps \in [1..shown -> 1..Len(props)] :
              /\ \A r, q \in 1..shown : r < q => NameBefore(props, ps[r], ps[q])
              /\ \A i \in 1..Len(props) :
                   (\A r \in 1..shown : ps[r] # i) =>
                     \A r \in 1..shown : NameBefore(props, ps[r], i)
  IN [r \in 1..shown |-> props[at[r]].key]

(* names separated by a comma and a space *)
RECURSIVE CommaList(_)
CommaList(names) ==
  IF Len(names) = 0 THEN <<>>
  ELSE IF Len(names) = 1 THEN names[1]
  ELSE CommaList(SubSeq(names, 1, Len(names) - 1)) \o <<",", " ">> \o names[Len(names)]

(* the description by the rules in their order *)
ExpectedDescription(schema, emptyIsAbsent) ==
  IF Given(schema.ref, emptyIsAbsent)
  THEN LET target == TargetOf(schema.ref.val)
       IN IF target.def /\ Given(target.val.description, emptyIsAbsent)
          THEN [prefix |-> "", word |-> "", text |-> target.val.description.val, suffix |-> ""]
          ELSE [prefix |-> "", word |-> "", text |-> sSchemaReference, suffix |-> ""]
  ELSE IF Given(schema.description, emptyIsAbsent)
  THEN [prefix |-> "", word |-> "", text |-> schema.description.val, suffix |-> ""]
  ELSE IF schema.type = "object" /\ schema.properties.def
  THEN [prefix |-> "Object with properties: ", word |-> "",
        text |-> CommaList(FirstNames(schema.properties.val, 3)),
        suffix |-> IF Len(schema.properties.val) > 3 THEN "..." ELSE ""]
  ELSE IF schema.type = "array" /\ schema.items.def
  THEN [prefix |-> "Array of ",
        word |-> IF schema.items.val.type = "" THEN "items" ELSE schema.items.val.type,
        text |-> <<>>, suffix |-> ""]
  ELSE [prefix |-> "", word |-> IF schema.type = "" THEN "unknown" ELSE schema.type,
        text |-> <<>>, suffix |-> ""]

(* C24 as claimed: describe(schema) is given by the first rule that applies:
   a schema with a $ref - the description of the resolved schema, or 'Schema
   reference' when the target has none or the $ref does not resolve, whatever
   the description of the schema itself; a schema with a description - that
   description; an object schema with properties - 'Object with properties:'
   and the first three property names at most; an array schema with items -
   'Array of' and the item type; otherwise the type, or 'unknown'.  A $ref
   or description that is the empty string is a $ref or description. *)
C24_DescribeAsClaimed ==
  Done("getSchemaDescription") =>
    /\ ~result.isError
    /\ result.text = ExpectedDescription(call.args.schema.val, FALSE)

(* C24 amended: the same, where a $ref or description that is the empty
   string counts as absent; the property names are in the key order of the
   properties object, separated by ', ' and followed by '...' when there are
   more than three; the item type is 'items' when the item schema has none. *)
C24_DescribeNonEmpty ==
  Done("getSchemaDescription") =>
    /\ ~result.isError
    /\ result.text = ExpectedDescription(call.args.schema.val, TRUE)

(* C24 witness: an object schema with a description and properties of its
   own and a $ref to a schema that is itself a $ref with a description is
   described by the description of the target *)
C24_Witness ==
  /\ Done("getSchemaDescription")
  /\ call.args.schema.val.ref = Some(RefTo(sPi))
  /\ call.args.schema.val.description = Some(sOpA)
  /\ call.args.schema.val.type = "object" /\ call.args.schema.val.properties.def
  /\ TargetOf(RefTo(sPi)) = Some(SchemaPing)
  /\ result.text = [prefix |-> "", word |-> "", text |-> sList, suffix |-> ""]

----------------------------------------------------------------------------
(* C25: resolve, describe and getSchema terminate on every document, also
   when its schemas reference themselves or each other: a call that has been
   entered returns, and it makes one lookup in components.schemas at most,
   never a second one for the $ref of a schema it has looked up. *)
C25_Terminates ==
  /\ [](frame.lookups <= 1)
  /\ (frame.pc # "idle") ~> (frame.pc = "done")

(* C25 witness: describe has returned for a $ref to one of two schemas that
   reference each other, after one lookup *)
C25_Witness ==
  /\ Done("getSchemaDescription")
  /\ call.args.schema.val.ref = Some(RefTo(sPo))
  /\ TargetOf(RefTo(sPo)) = Some(SchemaPong)
  /\ TargetOf(SchemaPong.ref.val) = Some(SchemaPing)
  /\ TargetOf(SchemaPing.ref.val) = Some(SchemaPong)
  /\ frame.lookups = 1
  /\ result.text = [prefix |-> "", word |-> "", text |-> sSchemaReference, suffix |-> ""]

----------------------------------------------------------------------------
(* the step calls getOpenAPIParser(): the server starts, or a client is
   constructed with an access token and without a base URL of its own *)
CallsGetOpenAPIParser ==
  \/ phase = "created" /\ phase' # "created"
  \/ /\ call = NoCall
     /\ call'.tool = "new FortnoxAPIClient"
     /\ call'.args.accessToken.def /\ call'.args.accessToken.val # <<>>
     /\ ~(call'.args.baseUrl.def /\ call'.args.baseUrl.val # <<>>)

(* C26: when the file cannot be read or parsed, the module variable `parser`
   stays null whatever calls are made, so that no call returns a parser
   without a document; the variable holds an instance only when the file has
   been read and parsed, and then the instance holds the parsed document;
   every call of getOpenAPIParser() that finds the variable null reads
   the file again; and on a file that is not JSON such a call fails: the
   construction of the client throws, the start of the server exits. *)
C26_FailedLoadLeavesUnset ==
  /\ [](source.kind # "json" => (parser = "null" /\ spec = NoSpec))
  /\ [](parser = "instance" => (source.kind = "json" /\ spec = source.json /\ reads >= 1))
  /\ [][(parser = "null" /\ CallsGetOpenAPIParser) => reads' = reads + 1]_vars
  /\ [][(source.kind # "json" /\ CallsGetOpenAPIParser)
          => (parser' = "null" /\ (result' = Thrown \/ phase' = "exited"))]_vars

(* C26 witness: the second construction of a client on a file that is not
   JSON throws as the first did, after a second read of the file, and the
   module variable is still null *)
C26_Witness ==
  /\ source.kind = "malformed"
  /\ IsCall("new FortnoxAPIClient")
  /\ call.args.accessToken.def /\ ~call.args.baseUrl.def
  /\ result = Thrown
  /\ reads = 2
  /\ parser = "null"
  /\ phase = "created"

====
